---- MODULE Spec2Model ----
(***************************************************************************)
(* Model of foundation_level/expression_calculator/expression_calculator.py *)
(* A Python str is a sequence of pieces (one-character strings for the      *)
(* expression and the tokens, literal message parts for error texts).       *)
(* A Python float is an exact rational <<n, d>> in lowest terms, d > 0:     *)
(* rounding, overflow, inf and nan are outside the model.                   *)
(***************************************************************************)
EXTENDS Integers, Sequences, FiniteSets, TLC

VARIABLES
    expression,      \* the argument of calculate
    pc,              \* where the call of calculate stands
    pos,             \* tokenize: index of the next character of the for loop
    current_number,  \* tokenize: the literal being built
    tokens,          \* tokenize's list, then calculate's tokens
    stack,           \* frames of evaluate_with_parentheses / evaluate_simple
    result,          \* first component of the pair calculate returns
    error,           \* second component of the pair calculate returns
    calls,           \* history: the calls made so far, in order
    suspended,       \* the calls of calculate in progress that are not running
    started,         \* number of calls of calculate started so far
    main,            \* expression_calculator.py: the command-line loop
    order,           \* state_machine.py: an Order
    light,           \* state_machine.py: a TrafficLight
    counter,         \* race_condition_Demo.py: a Counter and the threads of a test
    resource,        \* deadlock.py: the two locks and the two tasks of a scenario
    conn_pool        \* pooling.py: a ConnectionPool and the threads that use it

\* the calls of calculate
calculator == <<expression, pc, pos, current_number, tokens, stack, result, error, calls,
                suspended, started>>

\* the programs other than calculate
outside == <<main, order, light, counter, resource, conn_pool>>

vars == <<expression, pc, pos, current_number, tokens, stack, result, error, calls,
          suspended, started, outside>>

\* main() has not been called
MainOff == main = [at |-> "off", expression |-> <<>>, out |-> [kind |-> "none", text |-> <<>>]]
\* an object of a state machine class before its construction
NoCall == [method |-> "none", state |-> "none", history |-> <<>>, outcome |-> "none"]
Unmade == [made |-> FALSE, _current_state |-> "none", _state_history |-> <<>>,
           called |-> NoCall]
\* no Order and no TrafficLight has been constructed
OrderOff == order = Unmade /\ light = Unmade
\* no test of the Counter is running
CounterOff == counter = [test |-> "off"]
\* no scenario of the two tasks is running
ResourceOff == resource = [scenario |-> "off"]
\* no ConnectionPool has been constructed
PoolOff == conn_pool = [_size |-> 0]

-----------------------------------------------------------------------------
(* Bounds of the model *)

\* longest expression drawn from the whole alphabet
MaxLen == 3
\* most binary operators in a generated well-formed expression
MaxOps == 2
\* most calls of calculate started in a run with several calls
MaxCalls == 3

-----------------------------------------------------------------------------
(* Python values *)

PyNone == [ty |-> "None", v |-> <<0, 1>>, s |-> <<>>]
PyFloat(x) == [ty |-> "float", v |-> x, s |-> <<>>]
PyStr(t) == [ty |-> "str", v |-> <<0, 1>>, s |-> t]

Abs(x) == IF x < 0 THEN -x ELSE x

RECURSIVE Gcd(_, _)
Gcd(a, b) == IF b = 0 THEN a ELSE Gcd(b, a % b)

\* the rational n/d in lowest terms with a positive denominator
Norm(n, d) ==
    LET g == Gcd(Abs(n), Abs(d))
        sg == IF d < 0 THEN -1 ELSE 1
    IN  <<(sg * n) \div g, (sg * d) \div g>>

FAdd(a, b) == Norm(a[1] * b[2] + b[1] * a[2], a[2] * b[2])
FSub(a, b) == Norm(a[1] * b[2] - b[1] * a[2], a[2] * b[2])
FMul(a, b) == Norm(a[1] * b[1], a[2] * b[2])
FDiv(a, b) == Norm(a[1] * b[2], a[2] * b[1])

-----------------------------------------------------------------------------
(* Characters *)

DigitChars == <<"0", "1", "2", "3", "4", "5", "6", "7", "8", "9">>
Digits == {DigitChars[k] : k \in 1..10}
DigitChar(k) == DigitChars[k + 1]
DigitVal(c) == (CHOOSE k \in 1..10 : DigitChars[k] = c) - 1

\* char.isdigit()
IsDigit(c) == c \in Digits

\* the string '+-*/' of evaluate_simple
OperatorString == <<"+", "-", "*", "/">>
\* the string '+-*/()' of tokenize
SymbolString == <<"+", "-", "*", "/", "(", ")">>

\* Python's  t in text  for two strings: t is a substring of text
IsSubstring(t, text) ==
    \E k \in 0..(Len(text) - Len(t)) : SubSeq(text, k + 1, k + Len(t)) = t

-----------------------------------------------------------------------------
(* str(float) and float(str) *)

RECURSIVE NatDigits(_)
NatDigits(n) ==
    IF n < 10 THEN <<DigitChar(n)>>
    ELSE Append(NatDigits(n \div 10), DigitChar(n % 10))

\* the decimals of r/d (0 <= r < d) by long division; a recurring block is
\* written between "[" and "]", so that the text reads back as the same value
RECURSIVE FracDigits(_, _, _, _)
FracDigits(r, d, rems, digs) ==
    IF r = 0 THEN (IF digs = <<>> THEN <<"0">> ELSE digs)
    ELSE IF \E k \in 1..Len(rems) : rems[k] = r
    THEN LET k == CHOOSE j \in 1..Len(rems) : rems[j] = r
         IN  SubSeq(digs, 1, k - 1) \o <<"[">> \o SubSeq(digs, k, Len(digs)) \o <<"]">>
    ELSE FracDigits((r * 10) % d, d, Append(rems, r),
                    Append(digs, DigitChar((r * 10) \div d)))

\* str(x) of a float x: sign, integer part, ".", decimals ("8.0", "-2.0", "0.5")
StrFloat(x) ==
    LET m == Abs(x[1])
    IN  (IF x[1] < 0 THEN <<"-">> ELSE <<>>)
        \o NatDigits(m \div x[2]) \o <<".">> \o FracDigits(m % x[2], x[2], <<>>, <<>>)

\* str(v) of a Python value held in a token list: a str is itself
Str(val) == IF val.ty = "float" THEN StrFloat(val.v) ELSE val.s

RECURSIVE DigitsValue(_)
DigitsValue(ds) ==
    IF ds = <<>> THEN 0
    ELSE 10 * DigitsValue(SubSeq(ds, 1, Len(ds) - 1)) + DigitVal(ds[Len(ds)])

RECURSIVE Pow10(_)
Pow10(k) == IF k = 0 THEN 1 ELSE 10 * Pow10(k - 1)

IndexOf(c, t) == IF \E k \in 1..Len(t) : t[k] = c
                 THEN CHOOSE k \in 1..Len(t) : t[k] = c /\ \A j \in 1..(k - 1) : t[j] # c
                 ELSE 0

Count(c, t) == Cardinality({k \in 1..Len(t) : t[k] = c})

AllDigits(t) == \A k \in 1..Len(t) : IsDigit(t[k])

\* the text after an optional sign
Unsigned(t) == IF t # <<>> /\ t[1] \in {"-", "+"} THEN SubSeq(t, 2, Len(t)) ELSE t

\* the parts of an unsigned numeral: digits before the point, decimals after
\* it, and the recurring block of the decimals
IntPart(u) == IF IndexOf(".", u) = 0 THEN u ELSE SubSeq(u, 1, IndexOf(".", u) - 1)
AfterPoint(u) == IF IndexOf(".", u) = 0 THEN <<>> ELSE SubSeq(u, IndexOf(".", u) + 1, Len(u))
FixedPart(a) == IF IndexOf("[", a) = 0 THEN a ELSE SubSeq(a, 1, IndexOf("[", a) - 1)
RecurPart(a) == IF IndexOf("[", a) = 0 THEN <<>> ELSE SubSeq(a, IndexOf("[", a) + 1, Len(a) - 1)

\* a point with no digit is taken for a float as well
IsFloatLiteralWithoutDigit(t) ==
    LET u == Unsigned(t)
        a == AfterPoint(u)
    IN  /\ Count(".", u) <= 1
        /\ AllDigits(IntPart(u))
        /\ \/ /\ IndexOf("[", a) = 0
              /\ AllDigits(a)
              /\ u # <<>>
           \/ /\ IndexOf("[", a) > 0
              /\ a[Len(a)] = "]"
              /\ AllDigits(FixedPart(a))
              /\ AllDigits(RecurPart(a))
              /\ RecurPart(a) # <<>>

\* float(t) succeeds: digits with at most one point and at least one digit
\* ("2.", ".5" and "-2.0" are floats; ".", "1.2.3", ")" and "++" are not)
IsFloatLiteral(t) ==
    LET u == Unsigned(t)
        a == AfterPoint(u)
    IN  /\ Count(".", u) <= 1
        /\ AllDigits(IntPart(u))
        /\ \/ /\ IndexOf("[", a) = 0
              /\ AllDigits(a)
              /\ Len(IntPart(u)) + Len(a) > 0
           \/ /\ IndexOf("[", a) > 0
              /\ a[Len(a)] = "]"
              /\ AllDigits(FixedPart(a))
              /\ AllDigits(RecurPart(a))
              /\ RecurPart(a) # <<>>

\* the value float(t) of a text that is a float literal
FloatValue(t) ==
    LET u == Unsigned(t)
        a == AfterPoint(u)
        k == Len(FixedPart(a))
        p == Len(RecurPart(a))
        whole == Norm(DigitsValue(IntPart(u)), 1)
        fixed == Norm(DigitsValue(FixedPart(a)), Pow10(k))
        recur == IF p = 0 THEN <<0, 1>>
                 ELSE FDiv(Norm(DigitsValue(RecurPart(a)), Pow10(p) - 1), Norm(Pow10(k), 1))
        mag == FAdd(whole, FAdd(fixed, recur))
    IN  IF t # <<>> /\ t[1] = "-" THEN <<-mag[1], mag[2]>> ELSE mag

-----------------------------------------------------------------------------
(* Python lists (0-based) and exceptions *)

\* list[k]
At(list, k) == list[k + 1]
\* list[a:b] and list[a:], for 0 <= a <= b <= len(list)
Slice(list, a, b) == SubSeq(list, a + 1, b)
SliceFrom(list, a) == SubSeq(list, a + 1, Len(list))

NoException == [type |-> "", s |-> <<>>]
ValueError(msg) == [type |-> "ValueError", s |-> msg]
IndexError == [type |-> "IndexError", s |-> <<"list index out of range">>]
TypeError(msg) == [type |-> "TypeError", s |-> msg]
ZeroDivisionError == [type |-> "ZeroDivisionError", s |-> <<"float division by zero">>]

\* the outcome of a call or of a step: a value, or an exception raised
Return(val) == [raised |-> FALSE, val |-> val, exc |-> NoException]
Raise(exc) == [raised |-> TRUE, val |-> PyNone, exc |-> exc]

\* the clause for IndexError is missing
HandlerWithoutIndexError(exc) ==
    IF exc.type = "ValueError" THEN PyStr(exc.s)
    ELSE PyStr(<<"Error: ">> \o exc.s)

\* the except clauses of calculate: the error text returned for an exception
Handler(exc) ==
    IF exc.type = "ValueError" THEN PyStr(exc.s)
    ELSE IF exc.type = "IndexError" THEN PyStr(<<"Invalid expression format">>)
    ELSE PyStr(<<"Error: ">> \o exc.s)

-----------------------------------------------------------------------------
(* Python's binary operators on the values of the processed list *)

Unsupported(op, l, r) ==
    TypeError(<<"unsupported operand type(s) for ", op, ": '", l.ty, "' and '", r.ty, "'">>)

PyMul(l, r) ==
    IF l.ty = "float" /\ r.ty = "float" THEN Return(PyFloat(FMul(l.v, r.v)))
    ELSE Raise(TypeError(<<"can't multiply sequence by non-int of type '",
                           (IF l.ty = "str" /\ r.ty = "str" THEN "str" ELSE "float"), "'">>))

PyDiv(l, r) ==
    IF l.ty = "float" /\ r.ty = "float"
    THEN (IF r.v[1] = 0 THEN Raise(ZeroDivisionError) ELSE Return(PyFloat(FDiv(l.v, r.v))))
    ELSE Raise(Unsupported("/", l, r))

PyAdd(l, r) ==
    IF l.ty = "float" /\ r.ty = "float" THEN Return(PyFloat(FAdd(l.v, r.v)))
    ELSE IF l.ty = "str" /\ r.ty = "str" THEN Return(PyStr(l.s \o r.s))
    ELSE IF l.ty = "str" THEN Raise(TypeError(<<"can only concatenate str (not \"float\") to str">>))
    ELSE Raise(Unsupported("+", l, r))

PySub(l, r) ==
    IF l.ty = "float" /\ r.ty = "float" THEN Return(PyFloat(FSub(l.v, r.v)))
    ELSE Raise(Unsupported("-", l, r))

\* processed[k] == '*'  and  processed[k] == 0
IsOp(val, op) == val.ty = "str" /\ val.s = <<op>>
IsZero(val) == val.ty = "float" /\ val.v[1] = 0

-----------------------------------------------------------------------------
(* find_matching_parenthesis *)

RECURSIVE MatchScan(_, _, _)
MatchScan(toks, index, count) ==
    IF index < Len(toks) /\ count > 0
    THEN MatchScan(toks, index + 1,
                   IF At(toks, index) = <<"(">> THEN count + 1
                   ELSE IF At(toks, index) = <<")">> THEN count - 1
                   ELSE count)
    ELSE <<index, count>>

\* the scan ends without the count being checked
find_matching_parenthesis_unchecked(toks, start_index) ==
    Return(MatchScan(toks, start_index + 1, 1)[1] - 1)

find_matching_parenthesis(toks, start_index) ==
    LET r == MatchScan(toks, start_index + 1, 1)
    IN  IF r[2] # 0 THEN Raise(ValueError(<<"Mismatched parentheses">>))
        ELSE Return(r[1] - 1)

-----------------------------------------------------------------------------
(* evaluate_simple, step by step *)

\* a classification by the first character only
IsOperatorTokenByFirstChar(token) == token # <<>> /\ IsSubstring(<<token[1]>>, OperatorString)

\* token in '+-*/'
IsOperatorToken(token) == IsSubstring(token, OperatorString)

\* lines 68-80: the processed list, or the first exception of the conversion
ConvertTokens(toks) ==
    IF toks = <<>> THEN Raise(ValueError(<<"Empty expression">>))
    ELSE LET bad == {k \in 1..Len(toks) :
                        ~IsOperatorToken(toks[k]) /\ ~IsFloatLiteral(toks[k])}
         IN  IF bad # {}
             THEN LET k == CHOOSE j \in bad : \A m \in bad : j <= m
                  IN  Raise(ValueError(<<"Invalid number: ">> \o toks[k]))
             ELSE Return([k \in 1..Len(toks) |->
                            IF IsOperatorToken(toks[k]) THEN PyStr(toks[k])
                            ELSE PyFloat(FloatValue(toks[k]))])

\* processed[:i-1] + [result] + processed[i+2:]
Replace3(processed, i, val) ==
    Slice(processed, 0, i - 1) \o <<val>> \o SliceFrom(processed, i + 2)

\* one reduction of the operator at index i; processed[i+1] is read first
Reduce(processed, i, r) ==
    IF r.raised THEN r
    ELSE Return([processed |-> Replace3(processed, i, r.val), i |-> i])

\* the index advances after a reduction too
Pass1IterAdvance(processed, i) ==
    IF i > 0 /\ (IsOp(At(processed, i), "*") \/ IsOp(At(processed, i), "/"))
    THEN IF i + 1 >= Len(processed) THEN Raise(IndexError)
         ELSE IF IsOp(At(processed, i), "/") /\ IsZero(At(processed, i + 1))
         THEN Raise(ValueError(<<"Division by zero">>))
         ELSE LET r == IF IsOp(At(processed, i), "*")
                       THEN PyMul(At(processed, i - 1), At(processed, i + 1))
                       ELSE PyDiv(At(processed, i - 1), At(processed, i + 1))
              IN  IF r.raised THEN r
                  ELSE Return([processed |-> Replace3(processed, i, r.val), i |-> i + 1])
    ELSE Return([processed |-> processed, i |-> i + 1])

\* the divisor is not compared with zero
Pass1IterNoZeroCheck(processed, i) ==
    IF i > 0 /\ (IsOp(At(processed, i), "*") \/ IsOp(At(processed, i), "/"))
    THEN IF i + 1 >= Len(processed) THEN Raise(IndexError)
         ELSE Reduce(processed, i,
                     IF IsOp(At(processed, i), "*")
                     THEN PyMul(At(processed, i - 1), At(processed, i + 1))
                     ELSE PyDiv(At(processed, i - 1), At(processed, i + 1)))
    ELSE Return([processed |-> processed, i |-> i + 1])

\* one iteration of the while loop of lines 84-98
Pass1Iter(processed, i) ==
    IF i > 0 /\ IsOp(At(processed, i), "*")
    THEN IF i + 1 >= Len(processed) THEN Raise(IndexError)
         ELSE Reduce(processed, i, PyMul(At(processed, i - 1), At(processed, i + 1)))
    ELSE IF i > 0 /\ IsOp(At(processed, i), "/")
    THEN IF i + 1 >= Len(processed) THEN Raise(IndexError)
         ELSE IF IsZero(At(processed, i + 1)) THEN Raise(ValueError(<<"Division by zero">>))
         ELSE Reduce(processed, i, PyDiv(At(processed, i - 1), At(processed, i + 1)))
    ELSE Return([processed |-> processed, i |-> i + 1])

\* after a replacement the index moves on
Pass2IterAdvance(processed, i) ==
    IF i > 0 /\ IsOp(At(processed, i), "+")
    THEN IF i + 1 >= Len(processed) THEN Raise(IndexError)
         ELSE LET r == PyAdd(At(processed, i - 1), At(processed, i + 1))
              IN  IF r.raised THEN r
                  ELSE Return([processed |-> Replace3(processed, i, r.val), i |-> i + 1])
    ELSE IF i > 0 /\ IsOp(At(processed, i), "-")
    THEN IF i + 1 >= Len(processed) THEN Raise(IndexError)
         ELSE LET r == PySub(At(processed, i - 1), At(processed, i + 1))
              IN  IF r.raised THEN r
                  ELSE Return([processed |-> Replace3(processed, i, r.val), i |-> i + 1])
    ELSE Return([processed |-> processed, i |-> i + 1])

\* a token that is no additive operator is looked at again
Pass2IterStay(processed, i) ==
    IF i > 0 /\ IsOp(At(processed, i), "+")
    THEN IF i + 1 >= Len(processed) THEN Raise(IndexError)
         ELSE Reduce(processed, i, PyAdd(At(processed, i - 1), At(processed, i + 1)))
    ELSE IF i > 0 /\ IsOp(At(processed, i), "-")
    THEN IF i + 1 >= Len(processed) THEN Raise(IndexError)
         ELSE Reduce(processed, i, PySub(At(processed, i - 1), At(processed, i + 1)))
    ELSE Return([processed |-> processed, i |-> IF i = 0 THEN 1 ELSE i])

\* one iteration of the while loop of lines 102-110
Pass2Iter(processed, i) ==
    IF i > 0 /\ IsOp(At(processed, i), "+")
    THEN IF i + 1 >= Len(processed) THEN Raise(IndexError)
         ELSE Reduce(processed, i, PyAdd(At(processed, i - 1), At(processed, i + 1)))
    ELSE IF i > 0 /\ IsOp(At(processed, i), "-")
    THEN IF i + 1 >= Len(processed) THEN Raise(IndexError)
         ELSE Reduce(processed, i, PySub(At(processed, i - 1), At(processed, i + 1)))
    ELSE Return([processed |-> processed, i |-> i + 1])

\* lines 113-116
FinalCheck(processed) ==
    IF Len(processed) # 1 THEN Raise(ValueError(<<"Invalid expression">>))
    ELSE Return(At(processed, 0))

-----------------------------------------------------------------------------
(* The inputs *)

\* the characters expressions are drawn from: two digits, the point, the two
\* blanks, the six symbols and a character outside every set
Alphabet == {"0", "2", ".", " ", "\t", "+", "-", "*", "/", "(", ")", "&"}

RECURSIVE StringsOfLen(_)
StringsOfLen(n) ==
    IF n = 0 THEN {<<>>}
    ELSE {Append(t, c) : t \in StringsOfLen(n - 1), c \in Alphabet}

AllStrings == UNION {StringsOfLen(n) : n \in 0..MaxLen}

\* well-formed expressions with exactly k binary operators:
\*   expr := operand | expr op operand      operand := literal | "(" expr ")"
Literals == {<<"0">>, <<"2">>}
RECURSIVE Expr(_), Operand(_)
Operand(k) ==
    IF k = 0 THEN Literals ELSE {<<"(">> \o e \o <<")">> : e \in Expr(k)}
Expr(k) ==
    IF k = 0 THEN Literals
    ELSE UNION {{e \o <<op>> \o o : e \in Expr(j), op \in {"+", "-", "*", "/"},
                                   o \in Operand(k - 1 - j)} : j \in 0..(k - 1)}

WellFormedStrings == UNION {Expr(k) : k \in 0..MaxOps}

\* the expressions the documentation and the welcome text give
Ex_5p3m2 == <<"5", " ", "+", " ", "3", " ", "*", " ", "2">>
Ex_20d4d5 == <<"2", "0", " ", "/", " ", "4", " ", "/", " ", "5">>
Ex_p5p3pm2 == <<"(", "5", " ", "+", " ", "3", ")", " ", "*", " ", "2">>
Ex_nested == <<"(", "(", "5", " ", "+", " ", "3", ")", " ", "*", " ", "2", ")",
               " ", "-", " ", "1", "0", " ", "/", " ", "5">>
Ex_divzero == <<"1", "5", " ", "/", " ", "3", " ", "+", " ", "2", " ", "/", " ", "0">>
Ex_open == <<"(", "5", " ", "+", " ", "3">>
Ex_close == <<"5", " ", "+", " ", "3", ")">>
Ex_close2 == <<")", " ", "5", " ", "+", " ", "(", "3", ")">>
Ex_amp == <<"5", " ", "&", " ", "3">>
Ex_blank == <<" ", " ", " ">>
Examples == {Ex_5p3m2, Ex_20d4d5, Ex_p5p3pm2, Ex_nested, Ex_divzero,
             Ex_open, Ex_close, Ex_close2, Ex_amp, Ex_blank}

\* further expressions: a group with a recurring decimal value, a group
\* holding one literal, a doubled pair of parentheses, decimal literals
Pr_third == <<"(", "1", "/", "3", ")", "*", "3">>
Pr_sixth == <<"1", "-", "(", "5", "/", "6", ")">>
Pr_zero == <<"2", "/", "(", "0", ")">>
Pr_double == <<"(", "(", "2", "-", "3", ")", ")", "*", "2">>
Pr_decimal == <<"1", ".", "5", "*", "(", ".", "5", "+", "2", ".", ")">>
Pr_nested == <<"(", "(", "2", "-", "3", ")", "*", "2", ")", "/", "5">>
\* an operator where a sign would stand, a trailing operator, two operands
\* side by side, a literal with two points, tabs between the tokens
Pr_sign == <<"3", " ", "*", " ", "-", "2">>
Pr_lead == <<"-", "5", " ", "+", " ", "3">>
Pr_trail == <<"5", " ", "-">>
Pr_trail2 == <<"2", " ", "*">>
Pr_adjacent == <<"2", " ", "(", "3", ")">>
Pr_groups == <<"(", "2", ")", "(", "3", ")">>
Pr_points == <<"1", ".", "2", ".", "3">>
Pr_tab == <<"5", "\t", "+", "\t", "3">>
Pr_space == <<"5", " ", "+", " ", "3">>
\* groups side by side and inside one another, some of which fail
Pr_inner == <<"(", "(", "2", "*", ")", "+", "(", "2", "/", "0", ")", ")">>
Pr_left == <<"(", "2", "/", "0", ")", "+", "(", "(", "2", "*", ")", ")">>
Pr_siblings == <<"(", "(", "2", ")", "+", "(", "3", ")", ")", "*", "(", "4", "-", "(", "1", ")", ")">>
Probes == {Pr_third, Pr_sixth, Pr_zero, Pr_double, Pr_decimal, Pr_nested,
           Pr_sign, Pr_lead, Pr_trail, Pr_trail2, Pr_adjacent, Pr_groups,
           Pr_points, Pr_tab, Pr_space, Pr_inner, Pr_left, Pr_siblings}

Inputs == AllStrings \cup WellFormedStrings \cup Examples \cup Probes

-----------------------------------------------------------------------------
(* calculate, step by step *)

Frame(fn, toks) ==
    [fn |-> fn, tokens |-> toks, i |-> 0, closing_index |-> 0,
     processed |-> <<>>, stage |-> ""]

Top == stack[Len(stack)]
SetTop(f) == [stack EXCEPT ![Len(stack)] = f]
Call(fn, arg) == [fn |-> fn, arg |-> arg]

Init ==
    /\ expression \in Inputs
    /\ pc = "tokenize"
    /\ pos = 1
    /\ current_number = <<>>
    /\ tokens = <<>>
    /\ stack = <<>>
    /\ result = PyNone
    /\ error = PyNone
    /\ calls = <<Call("tokenize", expression)>>
    /\ suspended = <<>>
    /\ started = 1
    /\ MainOff /\ OrderOff /\ CounterOff /\ ResourceOff /\ PoolOff

\* every character that is no digit, point or symbol is skipped
IsSkippedOrUnknown(char) ==
    ~(IsDigit(char) \/ char = "." \/ IsSubstring(<<char>>, SymbolString))

\* tokenize, line 16: char == ' '
IsSkipped(char) == char = " "

\* the token list is never taken to be empty
NeverEmpty(toks) == FALSE

\* calculate, line 155: not tokens
IsEmptyList(toks) == toks = <<>>

\* only ValueError and IndexError are caught; anything else leaves calculate
FailUncaught(exc) ==
    IF exc.type \in {"ValueError", "IndexError"}
    THEN /\ pc' = "done"
         /\ stack' = <<>>
         /\ result' = PyNone
         /\ error' = Handler(exc)
    ELSE /\ pc' = "raised"
         /\ stack' = <<>>
         /\ UNCHANGED <<result, error>>

\* an exception reaches the except clauses of calculate
Fail(exc) ==
    /\ pc' = "done"
    /\ stack' = <<>>
    /\ result' = PyNone
    /\ error' = Handler(exc)

\* a point begins a new number
TokenizeCharPointBegins ==
    /\ pc = "tokenize"
    /\ pos <= Len(expression)
    /\ LET char == expression[pos]
       IN  IF IsSkipped(char)
           THEN /\ pos' = pos + 1
                /\ UNCHANGED <<pc, current_number, tokens, stack, result, error>>
           ELSE IF IsDigit(char)
           THEN /\ pos' = pos + 1
                /\ current_number' = Append(current_number, char)
                /\ UNCHANGED <<pc, tokens, stack, result, error>>
           ELSE IF char = "."
           THEN /\ pos' = pos + 1
                /\ tokens' = (IF current_number # <<>>
                              THEN Append(tokens, current_number) ELSE tokens)
                /\ current_number' = <<char>>
                /\ UNCHANGED <<pc, stack, result, error>>
           ELSE IF IsSubstring(<<char>>, SymbolString)
           THEN /\ pos' = pos + 1
                /\ tokens' = (IF current_number # <<>>
                              THEN Append(tokens, current_number) ELSE tokens)
                             \o <<<<char>>>>
                /\ current_number' = <<>>
                /\ UNCHANGED <<pc, stack, result, error>>
           ELSE /\ Fail(ValueError(<<"Invalid character: ", char>>))
                /\ UNCHANGED <<pos, current_number, tokens>>
    /\ UNCHANGED <<expression, calls, suspended, started, outside>>

\* a space ends the number that is being read
TokenizeCharFlushOnSpace ==
    /\ pc = "tokenize"
    /\ pos <= Len(expression)
    /\ LET char == expression[pos]
       IN  IF IsSkipped(char)
           THEN /\ pos' = pos + 1
                /\ tokens' = (IF current_number # <<>>
                              THEN Append(tokens, current_number) ELSE tokens)
                /\ current_number' = <<>>
                /\ UNCHANGED <<pc, stack, result, error>>
           ELSE IF IsDigit(char) \/ char = "."
           THEN /\ pos' = pos + 1
                /\ current_number' = Append(current_number, char)
                /\ UNCHANGED <<pc, tokens, stack, result, error>>
           ELSE IF IsSubstring(<<char>>, SymbolString)
           THEN /\ pos' = pos + 1
                /\ tokens' = (IF current_number # <<>>
                              THEN Append(tokens, current_number) ELSE tokens)
                             \o <<<<char>>>>
                /\ current_number' = <<>>
                /\ UNCHANGED <<pc, stack, result, error>>
           ELSE /\ Fail(ValueError(<<"Invalid character: ", char>>))
                /\ UNCHANGED <<pos, current_number, tokens>>
    /\ UNCHANGED <<expression, calls, suspended, started, outside>>

\* tokenize: one iteration of the for loop
TokenizeChar ==
    /\ pc = "tokenize"
    /\ pos <= Len(expression)
    /\ LET char == expression[pos]
       IN  IF IsSkipped(char)
           THEN /\ pos' = pos + 1
                /\ UNCHANGED <<pc, current_number, tokens, stack, result, error>>
           ELSE IF IsDigit(char) \/ char = "."
           THEN /\ pos' = pos + 1
                /\ current_number' = Append(current_number, char)
                /\ UNCHANGED <<pc, tokens, stack, result, error>>
           ELSE IF IsSubstring(<<char>>, SymbolString)
           THEN /\ pos' = pos + 1
                /\ tokens' = (IF current_number # <<>>
                              THEN Append(tokens, current_number) ELSE tokens)
                             \o <<<<char>>>>
                /\ current_number' = <<>>
                /\ UNCHANGED <<pc, stack, result, error>>
           ELSE /\ Fail(ValueError(<<"Invalid character: ", char>>))
                /\ UNCHANGED <<pos, current_number, tokens>>
    /\ UNCHANGED <<expression, calls, suspended, started, outside>>

\* tokenize: the loop is over, the last number is kept and the list returned
TokenizeReturn ==
    /\ pc = "tokenize"
    /\ pos > Len(expression)
    /\ tokens' = (IF current_number # <<>> THEN Append(tokens, current_number) ELSE tokens)
    /\ pc' = "check"
    /\ UNCHANGED <<expression, pos, current_number, stack, result, error, calls, suspended, started, outside>>

\* calculate, lines 155-159
CheckEmpty ==
    /\ pc = "check"
    /\ IF IsEmptyList(tokens)
       THEN /\ pc' = "done"
            /\ result' = PyNone
            /\ error' = PyStr(<<"Empty expression">>)
            /\ UNCHANGED <<stack, calls>>
       ELSE /\ pc' = "eval"
            /\ stack' = <<Frame("evaluate_with_parentheses", tokens)>>
            /\ calls' = Append(calls, Call("evaluate_with_parentheses", tokens))
            /\ UNCHANGED <<result, error>>
    /\ UNCHANGED <<expression, pos, current_number, tokens, suspended, started, outside>>

\* '(' in tokens
HasOpen(toks) == <<"(">> \in {toks[k] : k \in 1..Len(toks)}

\* the index of the last '(' is taken
LastOpen(toks) == (CHOOSE k \in 1..Len(toks) :
                      toks[k] = <<"(">> /\ \A j \in (k + 1)..Len(toks) : toks[j] # <<"(">>) - 1

\* the index of the first '('
FirstOpen(toks) == IndexOf(<<"(">>, toks) - 1

\* evaluate_with_parentheses, lines 124-135: the first group is found and
\* its inside is handed to a recursive call
ResolveParen ==
    /\ pc = "eval"
    /\ Top.fn = "evaluate_with_parentheses"
    /\ HasOpen(Top.tokens)
    /\ LET i == FirstOpen(Top.tokens)
           r == find_matching_parenthesis(Top.tokens, i)
           inner_expression == Slice(Top.tokens, i + 1, r.val)
       IN  IF r.raised
           THEN /\ Fail(r.exc)
                /\ calls' = Append(calls, Call("find_matching_parenthesis", Top.tokens))
           ELSE /\ stack' = Append(SetTop([Top EXCEPT !.i = i, !.closing_index = r.val]),
                                   Frame("evaluate_with_parentheses", inner_expression))
                /\ calls' = calls \o <<Call("find_matching_parenthesis", Top.tokens),
                                       Call("evaluate_with_parentheses", inner_expression)>>
                /\ UNCHANGED <<pc, result, error>>
    /\ UNCHANGED <<expression, pos, current_number, tokens, suspended, started, outside>>

\* evaluate_with_parentheses, line 144, and evaluate_simple, lines 68-80
EvaluateSimpleCall ==
    /\ pc = "eval"
    /\ Top.fn = "evaluate_with_parentheses"
    /\ ~HasOpen(Top.tokens)
    /\ calls' = Append(calls, Call("evaluate_simple", Top.tokens))
    /\ LET r == ConvertTokens(Top.tokens)
       IN  IF r.raised
           THEN Fail(r.exc)
           ELSE /\ stack' = Append(stack, [Frame("evaluate_simple", Top.tokens)
                                           EXCEPT !.processed = r.val, !.stage = "pass1"])
                /\ UNCHANGED <<pc, result, error>>
    /\ UNCHANGED <<expression, pos, current_number, tokens, suspended, started, outside>>

\* one iteration of a reduction pass, or the end of the pass
PassStep(stage, next, r) ==
    /\ pc = "eval"
    /\ Top.fn = "evaluate_simple"
    /\ Top.stage = stage
    /\ IF Top.i < Len(Top.processed)
       THEN IF r.raised
            THEN Fail(r.exc)
            ELSE /\ stack' = SetTop([Top EXCEPT !.processed = r.val.processed, !.i = r.val.i])
                 /\ UNCHANGED <<pc, result, error>>
       ELSE /\ stack' = SetTop([Top EXCEPT !.i = 0, !.stage = next])
            /\ UNCHANGED <<pc, result, error>>
    /\ UNCHANGED <<expression, pos, current_number, tokens, calls, suspended, started, outside>>

\* evaluate_simple, lines 83-98
Pass1Step == PassStep("pass1", "pass2", Pass1Iter(Top.processed, Top.i))

\* evaluate_simple, lines 101-110
Pass2Step == PassStep("pass2", "check", Pass2Iter(Top.processed, Top.i))

\* the closing parenthesis is kept
SpliceKeepClose(toks, i, closing_index, inner_result) ==
    Slice(toks, 0, i) \o <<Str(inner_result)>> \o SliceFrom(toks, closing_index)

\* tokens[:i] + [str(inner_result)] + tokens[closing_index+1:]
Splice(toks, i, closing_index, inner_result) ==
    Slice(toks, 0, i) \o <<Str(inner_result)>> \o SliceFrom(toks, closing_index + 1)

\* evaluate_simple, lines 113-116; the value goes through line 144 to the
\* caller: line 138 of the enclosing evaluate_with_parentheses, or line 161
EvaluateSimpleReturn ==
    /\ pc = "eval"
    /\ Top.fn = "evaluate_simple"
    /\ Top.stage = "check"
    /\ LET r == FinalCheck(Top.processed)
           rest == SubSeq(stack, 1, Len(stack) - 2)
           parent == rest[Len(rest)]
       IN  IF r.raised
           THEN Fail(r.exc)
           ELSE IF rest = <<>>
           THEN /\ pc' = "done"
                /\ stack' = <<>>
                /\ result' = r.val
                /\ error' = PyNone
           ELSE /\ stack' = [rest EXCEPT ![Len(rest)] =
                               [parent EXCEPT !.tokens =
                                   Splice(parent.tokens, parent.i, parent.closing_index, r.val)]]
                /\ UNCHANGED <<pc, result, error>>
    /\ UNCHANGED <<expression, pos, current_number, tokens, calls, suspended, started, outside>>

Next ==
    \/ TokenizeChar
    \/ TokenizeReturn
    \/ CheckEmpty
    \/ ResolveParen
    \/ EvaluateSimpleCall
    \/ Pass1Step
    \/ Pass2Step
    \/ EvaluateSimpleReturn

Spec == Init /\ [][Next]_vars

-----------------------------------------------------------------------------
(* Several calls of calculate: one after another, as main makes them, and   *)
(* two in progress at once, of which one runs at a time                     *)

\* the expressions given to the calls
CallInputs == {Ex_5p3m2, Ex_p5p3pm2, Ex_amp, Pr_zero, Pr_trail, Pr_space}

\* the locals of the running call
Context ==
    [expression |-> expression, pc |-> pc, pos |-> pos,
     current_number |-> current_number, tokens |-> tokens, stack |-> stack,
     result |-> result, error |-> error, calls |-> calls]

\* the locals of a call of calculate(e) that has just begun
Fresh(e) ==
    [expression |-> e, pc |-> "tokenize", pos |-> 1,
     current_number |-> <<>>, tokens |-> <<>>, stack |-> <<>>,
     result |-> PyNone, error |-> PyNone, calls |-> <<Call("tokenize", e)>>]

\* the locals of the running call become those of c
Resume(c) ==
    /\ expression' = c.expression
    /\ pc' = c.pc
    /\ pos' = c.pos
    /\ current_number' = c.current_number
    /\ tokens' = c.tokens
    /\ stack' = c.stack
    /\ result' = c.result
    /\ error' = c.error
    /\ calls' = c.calls

InitCalls ==
    /\ expression \in CallInputs
    /\ pc = "tokenize"
    /\ pos = 1
    /\ current_number = <<>>
    /\ tokens = <<>>
    /\ stack = <<>>
    /\ result = PyNone
    /\ error = PyNone
    /\ calls = <<Call("tokenize", expression)>>
    /\ suspended \in {<<Fresh(e)>> : e \in CallInputs}
    /\ started = 2
    /\ MainOff /\ OrderOff /\ CounterOff /\ ResourceOff /\ PoolOff

\* the other call goes on, the running one waits
Switch ==
    /\ suspended # <<>>
    /\ suspended[1] # Context
    /\ Resume(suspended[1])
    /\ suspended' = <<Context>>
    /\ UNCHANGED <<started, outside>>

\* the pending number of the call before is still there
NewCallStaleNumber(e) ==
    /\ pc = "done"
    /\ started < MaxCalls
    /\ Resume([Fresh(e) EXCEPT !.current_number = current_number])
    /\ started' = started + 1
    /\ UNCHANGED <<suspended, outside>>

\* a call has returned and calculate is called again
NewCall(e) ==
    /\ pc = "done"
    /\ started < MaxCalls
    /\ Resume(Fresh(e))
    /\ started' = started + 1
    /\ UNCHANGED <<suspended, outside>>

NextCalls ==
    \/ Next
    \/ Switch
    \/ \E e \in CallInputs : NewCall(e)

SpecCalls == InitCalls /\ [][NextCalls]_vars

-----------------------------------------------------------------------------
(* main: the command-line loop around calculate                             *)

\* most lines of input that reach calculate in a run of main
MaxLines == 2

UpperLetters == <<"A", "B", "C", "D", "E", "F", "G", "H", "I", "J", "K", "L", "M",
                  "N", "O", "P", "Q", "R", "S", "T", "U", "V", "W", "X", "Y", "Z">>
LowerLetters == <<"a", "b", "c", "d", "e", "f", "g", "h", "i", "j", "k", "l", "m",
                  "n", "o", "p", "q", "r", "s", "t", "u", "v", "w", "x", "y", "z">>

\* str.lower()
Lower(t) ==
    [k \in 1..Len(t) |->
        IF \E n \in 1..26 : UpperLetters[n] = t[k]
        THEN LowerLetters[CHOOSE n \in 1..26 : UpperLetters[n] = t[k]]
        ELSE t[k]]

\* the characters str.strip() removes
StripChars == {" ", "\t", "\n", "\r"}

RECURSIVE LStrip(_)
LStrip(t) == IF t # <<>> /\ t[1] \in StripChars THEN LStrip(Tail(t)) ELSE t

RECURSIVE RStrip(_)
RStrip(t) ==
    IF t # <<>> /\ t[Len(t)] \in StripChars THEN RStrip(SubSeq(t, 1, Len(t) - 1)) ELSE t

\* str.strip()
Strip(t) == RStrip(LStrip(t))

\* the list ['exit', 'quit']
ExitCommands == {<<"e", "x", "i", "t">>, <<"q", "u", "i", "t">>}

\* the lines typed at the prompt
MainLines ==
    { <<"e", "x", "i", "t">>, <<"Q", "U", "I", "T">>, <<" ", "E", "x", "i", "t", "\t">>,
      <<>>, <<" ", " ">>,
      <<" ", "5", " ", "+", " ", "3", " ">>, <<"3", "/", "2">>, <<"0", "-", "2">>,
      <<"2", "/", "0">>, <<"5", " ", "&", " ", "3">>, <<"e", "x", "i", "t", "s">>,
      <<"+">>, <<"(", "/", ")">> }

\* what print writes: the kind of the line and its variable part
Printed(kind, text) == [kind |-> kind, text |-> text]

\* str(n) of an int
StrInt(n) == IF n < 0 THEN <<"-">> \o NatDigits(-n) ELSE NatDigits(n)

\* int(val) succeeds: a float, or a str that is a signed run of digits
IntAccepts(val) ==
    \/ val.ty = "float"
    \/ /\ val.ty = "str"
       /\ LET t == Strip(val.s)
              d == IF t # <<>> /\ t[1] \in {"+", "-"} THEN Tail(t) ELSE t
          IN  d # <<>> /\ \A k \in 1..Len(d) : IsDigit(d[k])

\* result == int(result): a float without a fractional part;
\* a str never equals an int
EqualsItsInt(val) == val.ty = "float" /\ val.v[2] = 1

\* display_welcome() has printed the banner and the loop asks for a line
InitMain ==
    /\ expression = <<>>
    /\ pc = "idle"
    /\ pos = 1
    /\ current_number = <<>>
    /\ tokens = <<>>
    /\ stack = <<>>
    /\ result = PyNone
    /\ error = PyNone
    /\ calls = <<>>
    /\ suspended = <<>>
    /\ started = 0
    /\ main = [at |-> "input", expression |-> <<>>, out |-> Printed("welcome", <<>>)]
    /\ OrderOff /\ CounterOff /\ ResourceOff /\ PoolOff

\* input(...).strip(), the exit test, the empty test and the call of calculate
MainInput(line) ==
    /\ main.at = "input"
    /\ LET e == Strip(line)
       IN  IF Lower(e) \in ExitCommands
           THEN /\ main' = [at |-> "returned", expression |-> e,
                            out |-> Printed("goodbye", <<>>)]
                /\ UNCHANGED <<expression, pc, pos, current_number, tokens, stack,
                               result, error, calls, started>>
           ELSE IF e = <<>>
           THEN /\ main' = [at |-> "input", expression |-> e,
                            out |-> Printed("empty", <<>>)]
                /\ UNCHANGED <<expression, pc, pos, current_number, tokens, stack,
                               result, error, calls, started>>
           ELSE /\ started < MaxLines
                /\ Resume(Fresh(e))
                /\ started' = started + 1
                /\ main' = [main EXCEPT !.at = "calculate", !.expression = e]
    /\ UNCHANGED <<suspended, order, light, counter, resource, conn_pool>>

\* calculate has returned: the error is printed, or the result
MainDisplay ==
    /\ main.at = "calculate"
    /\ pc = "done"
    /\ IF error.ty = "str" /\ error.s # <<>>
       THEN main' = [main EXCEPT !.at = "input", !.out = Printed("error", error.s)]
       ELSE IF ~IntAccepts(result)
       THEN main' = [main EXCEPT !.at = "raised",
                                 !.out = Printed(IF result.ty = "str" THEN "ValueError"
                                                 ELSE "TypeError", Str(result))]
       ELSE IF EqualsItsInt(result)
       THEN main' = [main EXCEPT !.at = "input",
                                 !.out = Printed("result", StrInt(result.v[1]))]
       ELSE main' = [main EXCEPT !.at = "input", !.out = Printed("result", Str(result))]
    /\ UNCHANGED <<expression, pc, pos, current_number, tokens, stack, result, error,
                   calls, suspended, started, order, light, counter, resource, conn_pool>>

NextMain ==
    \/ Next
    \/ \E line \in MainLines : MainInput(line)
    \/ MainDisplay

SpecMain == InitMain /\ [][NextMain]_vars

-----------------------------------------------------------------------------
(* state_machine.py: classes made by StateMachineMeta                       *)

\* longest _state_history of an object
MaxHistory == 5

\* a function of a class body, before any decorator
Def(name) == [name |-> name, _transition |-> <<>>]

\* transition(from_state, to_state)(func): the attribute is set, and a
\* value set before is replaced
transition(from_state, to_state, func) ==
    [func EXCEPT !._transition = <<from_state, to_state>>]

\* the body of class Order: its transition methods, in order
OrderAttrs ==
    << transition("PENDING", "CONFIRMED", Def("confirm")),
       transition("CONFIRMED", "PROCESSING", Def("start_processing")),
       transition("PROCESSING", "SHIPPED", Def("ship")),
       transition("SHIPPED", "DELIVERED", Def("deliver")),
       transition("PENDING", "CANCELLED",
                  transition("CONFIRMED", "CANCELLED", Def("cancel"))) >>

\* the body of class TrafficLight
TrafficLightAttrs ==
    << transition("RED", "GREEN", Def("go")),
       transition("GREEN", "YELLOW", Def("slow_down")),
       transition("YELLOW", "RED", Def("stop")) >>

\* StateMachineMeta.__new__: the dict transitions, key -> attr_name; a later
\* method with the same key replaces an earlier one
Transitions(attrs) ==
    LET keys == {attrs[k]._transition : k \in {n \in 1..Len(attrs) : attrs[n]._transition # <<>>}}
        last(key) == CHOOSE k \in 1..Len(attrs) :
                        /\ attrs[k]._transition = key
                        /\ \A n \in (k + 1)..Len(attrs) : attrs[n]._transition # key
    IN  [key \in keys |-> attrs[last(key)].name]

\* the class made from a body: _transitions and initial_state
Class(attrs, initial_state) ==
    [_transitions |-> Transitions(attrs), initial_state |-> initial_state,
     methods |-> {attrs[k].name : k \in 1..Len(attrs)}]

OrderClass == Class(OrderAttrs, "PENDING")
TrafficLightClass == Class(TrafficLightAttrs, "RED")

\* can_transition(to_state)
can_transition(cls, self, to_state) ==
    <<self._current_state, to_state>> \in DOMAIN cls._transitions

\* get_available_transitions()
get_available_transitions(cls, self) ==
    {key[2] : key \in {q \in DOMAIN cls._transitions : q[1] = self._current_state}}

\* new_init: the object starts in the initial state of its class
new_init(cls) ==
    [made |-> TRUE, _current_state |-> cls.initial_state,
     _state_history |-> <<cls.initial_state>>, called |-> NoCall]

\* _perform_transition(to_state, method_name)
PerformTransition(self, to_state) ==
    [self EXCEPT !._current_state = to_state,
                 !._state_history = Append(self._state_history, to_state)]

\* what a call leaves in the history variable called
Called(self, method, outcome) ==
    [method |-> method, state |-> self._current_state,
     history |-> self._state_history, outcome |-> outcome]

\* a call of the method of a class: through the wrapper of make_wrapper when
\* the method is a value of the dict transitions, else the method as written
CallMethod(cls, self, method) ==
    IF \E key \in DOMAIN cls._transitions : cls._transitions[key] = method
    THEN LET key == CHOOSE q \in DOMAIN cls._transitions : cls._transitions[q] = method
         IN  IF self._current_state # key[1]
             THEN [self EXCEPT !.called = Called(self, method, "ValueError")]
             ELSE [PerformTransition(self, key[2])
                      EXCEPT !.called = Called(self, method, "returned")]
    ELSE [self EXCEPT !.called = Called(self, method, "returned")]

\* neither object exists yet
InitMachines ==
    /\ expression = <<>>
    /\ pc = "idle"
    /\ pos = 1
    /\ current_number = <<>>
    /\ tokens = <<>>
    /\ stack = <<>>
    /\ result = PyNone
    /\ error = PyNone
    /\ calls = <<>>
    /\ suspended = <<>>
    /\ started = 0
    /\ OrderOff
    /\ MainOff /\ CounterOff /\ ResourceOff /\ PoolOff

\* order = Order(...)
NewOrder ==
    /\ ~order.made
    /\ order' = new_init(OrderClass)
    /\ UNCHANGED <<light, calculator, main, counter, resource, conn_pool>>

\* light = TrafficLight()
NewLight ==
    /\ ~light.made
    /\ light' = new_init(TrafficLightClass)
    /\ UNCHANGED <<order, calculator, main, counter, resource, conn_pool>>

\* a method of order is called
OrderCall(method) ==
    /\ order.made
    /\ Len(order._state_history) < MaxHistory
    /\ order' = CallMethod(OrderClass, order, method)
    /\ UNCHANGED <<light, calculator, main, counter, resource, conn_pool>>

\* a method of light is called
LightCall(method) ==
    /\ light.made
    /\ Len(light._state_history) < MaxHistory
    /\ light' = CallMethod(TrafficLightClass, light, method)
    /\ UNCHANGED <<order, calculator, main, counter, resource, conn_pool>>

NextMachines ==
    \/ NewOrder
    \/ NewLight
    \/ \E method \in OrderClass.methods : OrderCall(method)
    \/ \E method \in TrafficLightClass.methods : LightCall(method)

SpecMachines == InitMachines /\ [][NextMachines]_vars

-----------------------------------------------------------------------------
(* race_condition_Demo.py: a Counter incremented by several threads         *)

\* number of threads a test starts (range(100) in the source)
NumThreads == 3

Threads == 1..NumThreads

\* test_unsafe() or test_safe() has made its Counter (with its lock when
\* safe, 0 standing for a lock nobody holds) and has started no thread
NewTest(test) ==
    [test |-> test, value |-> 0, lock |-> 0, started |-> 0, joined |-> 0,
     returned |-> -1,
     at |-> [t \in Threads |-> "new"], temp |-> [t \in Threads |-> 0]]

InitCounter ==
    /\ expression = <<>>
    /\ pc = "idle"
    /\ pos = 1
    /\ current_number = <<>>
    /\ tokens = <<>>
    /\ stack = <<>>
    /\ result = PyNone
    /\ error = PyNone
    /\ calls = <<>>
    /\ suspended = <<>>
    /\ started = 0
    /\ counter \in {NewTest("unsafe"), NewTest("safe")}
    /\ MainOff /\ OrderOff /\ ResourceOff /\ PoolOff

\* t.start() in the for loop: the next thread begins its target
ThreadStart ==
    /\ counter.test # "off"
    /\ counter.started < NumThreads
    /\ counter' = [counter EXCEPT
                      !.started = @ + 1,
                      !.at[counter.started + 1] =
                          IF counter.test = "safe" THEN "with" ELSE "read"]
    /\ UNCHANGED <<calculator, main, order, light, resource, conn_pool>>

\* the with statement is entered without waiting for the lock
EnterWithoutLock(t) ==
    /\ counter.test = "safe"
    /\ counter.at[t] = "with"
    /\ counter' = [counter EXCEPT !.at[t] = "read"]
    /\ UNCHANGED <<calculator, main, order, light, resource, conn_pool>>

\* with self.lock: the thread waits until nobody holds the lock and takes it
Enter(t) ==
    /\ counter.test = "safe"
    /\ counter.at[t] = "with"
    /\ counter.lock = 0
    /\ counter' = [counter EXCEPT !.lock = t, !.at[t] = "read"]
    /\ UNCHANGED <<calculator, main, order, light, resource, conn_pool>>

\* temp = self.value
ReadValue(t) ==
    /\ counter.test # "off"
    /\ counter.at[t] = "read"
    /\ counter' = [counter EXCEPT !.temp[t] = counter.value, !.at[t] = "sleep"]
    /\ UNCHANGED <<calculator, main, order, light, resource, conn_pool>>

\* time.sleep(0.00001)
Sleep(t) ==
    /\ counter.test # "off"
    /\ counter.at[t] = "sleep"
    /\ counter' = [counter EXCEPT !.at[t] = "write"]
    /\ UNCHANGED <<calculator, main, order, light, resource, conn_pool>>

\* self.value = temp + 1; increment_unsafe returns after it
WriteValue(t) ==
    /\ counter.test # "off"
    /\ counter.at[t] = "write"
    /\ counter' = [counter EXCEPT
                      !.value = counter.temp[t] + 1,
                      !.at[t] = IF counter.test = "safe" THEN "exit" ELSE "done"]
    /\ UNCHANGED <<calculator, main, order, light, resource, conn_pool>>

\* the end of the with statement releases the lock; increment_safe returns
Exit(t) ==
    /\ counter.test = "safe"
    /\ counter.at[t] = "exit"
    /\ counter' = [counter EXCEPT
                      !.lock = IF counter.lock = t THEN 0 ELSE @,
                      !.at[t] = "done"]
    /\ UNCHANGED <<calculator, main, order, light, resource, conn_pool>>

\* t.join() in the second for loop: the next thread has ended
Join ==
    /\ counter.test # "off"
    /\ counter.started = NumThreads
    /\ counter.joined < NumThreads
    /\ counter.at[counter.joined + 1] = "done"
    /\ counter' = [counter EXCEPT !.joined = @ + 1]
    /\ UNCHANGED <<calculator, main, order, light, resource, conn_pool>>

\* return counter.value
TestReturn ==
    /\ counter.test # "off"
    /\ counter.joined = NumThreads
    /\ counter.returned = -1
    /\ counter' = [counter EXCEPT !.returned = counter.value]
    /\ UNCHANGED <<calculator, main, order, light, resource, conn_pool>>

NextCounter ==
    \/ ThreadStart
    \/ \E t \in Threads : Enter(t)
    \/ \E t \in Threads : ReadValue(t)
    \/ \E t \in Threads : Sleep(t)
    \/ \E t \in Threads : WriteValue(t)
    \/ \E t \in Threads : Exit(t)
    \/ Join
    \/ TestReturn

SpecCounter == InitCounter /\ [][NextCounter]_vars

-----------------------------------------------------------------------------
(* deadlock.py: two tasks and the locks resource_A and resource_B           *)

\* t1 and t2
Tasks == {1, 2}

\* most steps of waiting the main thread spends in one join with a timeout
MaxWait == 2

\* the second task takes resource_B first in both scenarios
LockOrderOpposite(scenario, t) ==
    IF t = 2 THEN <<"resource_B", "resource_A">> ELSE <<"resource_A", "resource_B">>

\* the two with statements of a task, outer first: task1_deadlock and
\* task2_deadlock take the locks in opposite orders, task1_safe and
\* task2_safe both take resource_A first
LockOrder(scenario, t) ==
    IF scenario = "deadlock" /\ t = 2
    THEN <<"resource_B", "resource_A">>
    ELSE <<"resource_A", "resource_B">>

\* a scenario of __main__: two new locks (0: nobody holds it), no task started
NewScenario(scenario) ==
    [scenario |-> scenario, resource_A |-> 0, resource_B |-> 0,
     at |-> [t \in Tasks |-> "new"], started |-> 0, joined |-> 0, waited |-> 0,
     alive |-> {}]

InitTasks ==
    /\ expression = <<>>
    /\ pc = "idle"
    /\ pos = 1
    /\ current_number = <<>>
    /\ tokens = <<>>
    /\ stack = <<>>
    /\ result = PyNone
    /\ error = PyNone
    /\ calls = <<>>
    /\ suspended = <<>>
    /\ started = 0
    /\ resource \in {NewScenario("deadlock"), NewScenario("safe")}
    /\ MainOff /\ OrderOff /\ CounterOff /\ PoolOff

\* t1.start(), t2.start(): the task prints that it tries its first lock
TaskStart ==
    /\ resource.scenario # "off"
    /\ resource.started < 2
    /\ resource' = [resource EXCEPT !.started = @ + 1,
                                    !.at[resource.started + 1] = "outer"]
    /\ UNCHANGED <<calculator, main, order, light, counter, conn_pool>>

\* the outer with: the task waits until the lock is free and takes it
AcquireOuter(t) ==
    /\ resource.scenario # "off"
    /\ resource.at[t] = "outer"
    /\ LET lock == LockOrder(resource.scenario, t)[1]
       IN  /\ resource[lock] = 0
           /\ resource' = [resource EXCEPT ![lock] = t, !.at[t] = "sleep"]
    /\ UNCHANGED <<calculator, main, order, light, counter, conn_pool>>

\* time.sleep(0.1), then the task prints that it tries its second lock
TaskSleep(t) ==
    /\ resource.scenario # "off"
    /\ resource.at[t] = "sleep"
    /\ resource' = [resource EXCEPT !.at[t] = "inner"]
    /\ UNCHANGED <<calculator, main, order, light, counter, conn_pool>>

\* the inner with
AcquireInner(t) ==
    /\ resource.scenario # "off"
    /\ resource.at[t] = "inner"
    /\ LET lock == LockOrder(resource.scenario, t)[2]
       IN  /\ resource[lock] = 0
           /\ resource' = [resource EXCEPT ![lock] = t, !.at[t] = "print"]
    /\ UNCHANGED <<calculator, main, order, light, counter, conn_pool>>

\* the two prints inside the inner with
TaskPrint(t) ==
    /\ resource.scenario # "off"
    /\ resource.at[t] = "print"
    /\ resource' = [resource EXCEPT !.at[t] = "exit_inner"]
    /\ UNCHANGED <<calculator, main, order, light, counter, conn_pool>>

\* the end of the inner with releases the second lock
ReleaseInner(t) ==
    /\ resource.scenario # "off"
    /\ resource.at[t] = "exit_inner"
    /\ resource' = [resource EXCEPT ![LockOrder(resource.scenario, t)[2]] = 0,
                                    !.at[t] = "exit_outer"]
    /\ UNCHANGED <<calculator, main, order, light, counter, conn_pool>>

\* the end of the outer with releases the first lock; the task returns
ReleaseOuter(t) ==
    /\ resource.scenario # "off"
    /\ resource.at[t] = "exit_outer"
    /\ resource' = [resource EXCEPT ![LockOrder(resource.scenario, t)[1]] = 0,
                                    !.at[t] = "done"]
    /\ UNCHANGED <<calculator, main, order, light, counter, conn_pool>>

\* the steps of one task
TaskStep(t) ==
    \/ AcquireOuter(t)
    \/ TaskSleep(t)
    \/ AcquireInner(t)
    \/ TaskPrint(t)
    \/ ReleaseInner(t)
    \/ ReleaseOuter(t)

\* t.join(): the task has ended
TaskJoin ==
    /\ resource.scenario # "off"
    /\ resource.started = 2
    /\ resource.joined < 2
    /\ resource.at[resource.joined + 1] = "done"
    /\ resource' = [resource EXCEPT !.joined = @ + 1, !.waited = 0]
    /\ UNCHANGED <<calculator, main, order, light, counter, conn_pool>>

\* t.join(timeout=3) of the first scenario: time passes while the task runs
JoinWait ==
    /\ resource.scenario = "deadlock"
    /\ resource.started = 2
    /\ resource.joined < 2
    /\ resource.at[resource.joined + 1] # "done"
    /\ resource.waited < MaxWait
    /\ resource' = [resource EXCEPT !.waited = @ + 1]
    /\ UNCHANGED <<calculator, main, order, light, counter, conn_pool>>

\* t.join(timeout=3) of the first scenario: the three seconds are over
JoinTimeout ==
    /\ resource.scenario = "deadlock"
    /\ resource.started = 2
    /\ resource.joined < 2
    /\ resource.at[resource.joined + 1] # "done"
    /\ resource.waited = MaxWait
    /\ resource' = [resource EXCEPT !.joined = @ + 1, !.waited = 0]
    /\ UNCHANGED <<calculator, main, order, light, counter, conn_pool>>

\* after the joins: t1.is_alive() or t2.is_alive() in the first scenario,
\* the print of success in the second
ScenarioEnd ==
    /\ resource.scenario # "off"
    /\ resource.joined = 2
    /\ resource' = [resource EXCEPT !.joined = 3,
                                    !.alive = {t \in Tasks : resource.at[t] # "done"}]
    /\ UNCHANGED <<calculator, main, order, light, counter, conn_pool>>

\* the steps of the main thread
MainThreadStep ==
    \/ TaskStart
    \/ TaskJoin
    \/ JoinWait
    \/ JoinTimeout
    \/ ScenarioEnd

NextTasks ==
    \/ MainThreadStep
    \/ \E t \in Tasks : TaskStep(t)

SpecTasks == InitTasks /\ [][NextTasks]_vars

\* every thread that can run does run: the threads are scheduled by the
\* operating system, none is held back for ever
SpecTasksFair ==
    /\ SpecTasks
    /\ WF_vars(MainThreadStep)
    /\ \A t \in Tasks : WF_vars(TaskStep(t))

-----------------------------------------------------------------------------
(* pooling.py: a ConnectionPool used by several threads                     *)

\* largest size of a pool
MaxSize == 2
\* number of threads that call get_connection
NumClients == 3

Clients == 1..NumClients

\* ConnectionPool(size): an empty queue, nothing created, a lock nobody
\* holds (0); no thread has called get_connection yet
NewPool(size) ==
    [_size |-> size, _connections |-> <<>>, _created |-> 0, _lock |-> 0,
     at |-> [t \in Clients |-> "get_nowait"], conn |-> [t \in Clients |-> 0]]

InitPool ==
    /\ expression = <<>>
    /\ pc = "idle"
    /\ pos = 1
    /\ current_number = <<>>
    /\ tokens = <<>>
    /\ stack = <<>>
    /\ result = PyNone
    /\ error = PyNone
    /\ calls = <<>>
    /\ suspended = <<>>
    /\ started = 0
    /\ conn_pool \in {NewPool(size) : size \in 1..MaxSize}
    /\ MainOff /\ OrderOff /\ CounterOff /\ ResourceOff

\* conn = self._connections.get_nowait(), or the exception Empty
GetNowait(t) ==
    /\ conn_pool._size > 0
    /\ conn_pool.at[t] = "get_nowait"
    /\ IF conn_pool._connections # <<>>
       THEN conn_pool' = [conn_pool EXCEPT !._connections = Tail(@),
                                           !.conn[t] = conn_pool._connections[1],
                                           !.at[t] = "yield"]
       ELSE conn_pool' = [conn_pool EXCEPT !.at[t] = "except"]
    /\ UNCHANGED <<calculator, main, order, light, counter, resource>>

\* if self._created < self._size
CheckCreated(t) ==
    /\ conn_pool._size > 0
    /\ conn_pool.at[t] = "except"
    /\ conn_pool' = [conn_pool EXCEPT
                        !.at[t] = IF conn_pool._created < conn_pool._size
                                  THEN "create" ELSE "get"]
    /\ UNCHANGED <<calculator, main, order, light, counter, resource>>

\* _create_connection: with self._lock
LockPool(t) ==
    /\ conn_pool._size > 0
    /\ conn_pool.at[t] = "create"
    /\ conn_pool._lock = 0
    /\ conn_pool' = [conn_pool EXCEPT !._lock = t, !.at[t] = "created"]
    /\ UNCHANGED <<calculator, main, order, light, counter, resource>>

\* self._created += 1; return DatabaseConnection(self._created); the lock
\* is released
CreateConnection(t) ==
    /\ conn_pool._size > 0
    /\ conn_pool.at[t] = "created"
    /\ conn_pool' = [conn_pool EXCEPT !._created = @ + 1,
                                      !.conn[t] = conn_pool._created + 1,
                                      !._lock = 0,
                                      !.at[t] = "yield"]
    /\ UNCHANGED <<calculator, main, order, light, counter, resource>>

\* conn = self._connections.get(): waits until the queue has a connection
GetWaiting(t) ==
    /\ conn_pool._size > 0
    /\ conn_pool.at[t] = "get"
    /\ conn_pool._connections # <<>>
    /\ conn_pool' = [conn_pool EXCEPT !._connections = Tail(@),
                                      !.conn[t] = conn_pool._connections[1],
                                      !.at[t] = "yield"]
    /\ UNCHANGED <<calculator, main, order, light, counter, resource>>

\* yield conn: the body of the caller's with statement runs
Yield(t) ==
    /\ conn_pool._size > 0
    /\ conn_pool.at[t] = "yield"
    /\ conn_pool' = [conn_pool EXCEPT !.at[t] = "put"]
    /\ UNCHANGED <<calculator, main, order, light, counter, resource>>

\* finally: conn.reset(); self._connections.put(conn), which waits while the
\* queue holds maxsize connections
Put(t) ==
    /\ conn_pool._size > 0
    /\ conn_pool.at[t] = "put"
    /\ Len(conn_pool._connections) < conn_pool._size
    /\ conn_pool' = [conn_pool EXCEPT !._connections = Append(@, conn_pool.conn[t]),
                                      !.conn[t] = 0,
                                      !.at[t] = "done"]
    /\ UNCHANGED <<calculator, main, order, light, counter, resource>>

NextPool ==
    \/ \E t \in Clients : GetNowait(t)
    \/ \E t \in Clients : CheckCreated(t)
    \/ \E t \in Clients : LockPool(t)
    \/ \E t \in Clients : CreateConnection(t)
    \/ \E t \in Clients : GetWaiting(t)
    \/ \E t \in Clients : Yield(t)
    \/ \E t \in Clients : Put(t)

SpecPool == InitPool /\ [][NextPool]_vars

-----------------------------------------------------------------------------
(* The functions called as wholes: the value a call returns, or the         *)
(* exception it raises, as a function of its arguments                      *)

\* tokenize, lines 14-39, from position k on
RECURSIVE TokenizeLoop(_, _, _, _)
TokenizeLoop(e, k, toks, cur) ==
    IF k > Len(e)
    THEN Return(IF cur # <<>> THEN Append(toks, cur) ELSE toks)
    ELSE LET char == e[k]
         IN  IF IsSkipped(char) THEN TokenizeLoop(e, k + 1, toks, cur)
             ELSE IF IsDigit(char) \/ char = "."
             THEN TokenizeLoop(e, k + 1, toks, Append(cur, char))
             ELSE IF IsSubstring(<<char>>, SymbolString)
             THEN TokenizeLoop(e, k + 1,
                               (IF cur # <<>> THEN Append(toks, cur) ELSE toks)
                               \o <<<<char>>>>, <<>>)
             ELSE Raise(ValueError(<<"Invalid character: ", char>>))

tokenize(e) == TokenizeLoop(e, 1, <<>>, <<>>)

\* evaluate_simple, lines 83-98, from index i on
RECURSIVE Pass1Loop(_, _)
Pass1Loop(processed, i) ==
    IF i < Len(processed)
    THEN LET r == Pass1Iter(processed, i)
         IN  IF r.raised THEN r ELSE Pass1Loop(r.val.processed, r.val.i)
    ELSE Return(processed)

\* evaluate_simple, lines 101-110, from index i on
RECURSIVE Pass2Loop(_, _)
Pass2Loop(processed, i) ==
    IF i < Len(processed)
    THEN LET r == Pass2Iter(processed, i)
         IN  IF r.raised THEN r ELSE Pass2Loop(r.val.processed, r.val.i)
    ELSE Return(processed)

evaluate_simple(toks) ==
    LET c == ConvertTokens(toks)
    IN  IF c.raised THEN c
        ELSE LET p1 == Pass1Loop(c.val, 0)
             IN  IF p1.raised THEN p1
                 ELSE LET p2 == Pass2Loop(p1.val, 0)
                      IN  IF p2.raised THEN p2 ELSE FinalCheck(p2.val)

RECURSIVE evaluate_with_parentheses(_)
evaluate_with_parentheses(toks) ==
    IF HasOpen(toks)
    THEN LET i == FirstOpen(toks)
             closing_index == find_matching_parenthesis(toks, i)
         IN  IF closing_index.raised THEN closing_index
             ELSE LET inner_result ==
                          evaluate_with_parentheses(Slice(toks, i + 1, closing_index.val))
                  IN  IF inner_result.raised THEN inner_result
                      ELSE evaluate_with_parentheses(
                               Splice(toks, i, closing_index.val, inner_result.val))
    ELSE evaluate_simple(toks)

\* calculate: the pair (result, error) it returns
calculate(e) ==
    LET t == tokenize(e)
    IN  IF t.raised THEN [result |-> PyNone, error |-> Handler(t.exc)]
        ELSE IF IsEmptyList(t.val)
        THEN [result |-> PyNone, error |-> PyStr(<<"Empty expression">>)]
        ELSE LET r == evaluate_with_parentheses(t.val)
             IN  IF r.raised THEN [result |-> PyNone, error |-> Handler(r.exc)]
                 ELSE [result |-> r.val, error |-> PyNone]

-----------------------------------------------------------------------------
(* Vocabulary of the properties *)

Done == pc = "done"
\* tokenize has returned its list
TokensReady == pc # "tokenize" /\ pos > Len(expression)
Succeeded == Done /\ error = PyNone

ErrorIs(msg) == Done /\ result = PyNone /\ error = PyStr(msg)

\* the error kinds of the specification, by the message calculate returns
ErrorKind(e) ==
    IF e.s = <<>> THEN "None"
    ELSE IF e.s[1] = "Invalid character: " THEN "InvalidCharacter"
    ELSE IF e.s = <<"Empty expression">> THEN "EmptyExpression"
    ELSE IF e.s = <<"Mismatched parentheses">> THEN "UnbalancedParentheses"
    ELSE IF e.s = <<"Division by zero">> THEN "DivisionByZero"
    ELSE IF \/ e.s = <<"Invalid expression">>
            \/ e.s = <<"Invalid expression format">>
            \/ e.s[1] = "Invalid number: " THEN "MalformedExpression"
    ELSE "Generic"

\* the calls of the Parenthesis Resolver and of the Precedence Evaluator
EvaluationCalls ==
    {k \in 1..Len(calls) : calls[k].fn \in {"evaluate_with_parentheses", "evaluate_simple",
                                            "find_matching_parenthesis"}}

AddOps == {<<"+">>, <<"-">>}
MulOps == {<<"*">>, <<"/">>}

\* a conventional number literal: digits, at most one point, at least one digit
IsNumberLiteral(t) ==
    /\ \A k \in 1..Len(t) : t[k] \in Digits \cup {"."}
    /\ Count(".", t) <= 1
    /\ \E k \in 1..Len(t) : t[k] \in Digits

DecimalValue(t) ==
    LET ds == SelectSeq(t, LAMBDA c : c # ".")
        after == IF IndexOf(".", t) = 0 THEN 0 ELSE Len(t) - IndexOf(".", t)
    IN  Norm(DigitsValue(ds), Pow10(after))

\* nesting depth after the first k tokens
RECURSIVE DepthAt(_, _)
DepthAt(toks, k) ==
    IF k = 0 THEN 0
    ELSE DepthAt(toks, k - 1) + (IF toks[k] = <<"(">> THEN 1
                                 ELSE IF toks[k] = <<")">> THEN -1 ELSE 0)

TopLevel(toks, ops) == {k \in 1..Len(toks) : toks[k] \in ops /\ DepthAt(toks, k - 1) = 0}
Last(S) == CHOOSE k \in S : \A j \in S : j <= k

Arith(op, a, b) ==
    IF op = "+" THEN FAdd(a, b) ELSE IF op = "-" THEN FSub(a, b)
    ELSE IF op = "*" THEN FMul(a, b) ELSE FDiv(a, b)

NotWellFormed == [wf |-> FALSE, ok |-> FALSE, v |-> <<0, 1>>]
Undefined == [wf |-> TRUE, ok |-> FALSE, v |-> <<0, 1>>]
Value(x) == [wf |-> TRUE, ok |-> TRUE, v |-> x]

\* the reference evaluator: conventional precedence by splitting at the last
\* operator of the lowest tier outside every parenthesis.
\* wf: the tokens are a well-formed expression; ok: no division by zero
RECURSIVE Reference(_)
Reference(toks) ==
    LET add == TopLevel(toks, AddOps)
        mul == TopLevel(toks, MulOps)
        Split(k) ==
            LET l == Reference(SubSeq(toks, 1, k - 1))
                r == Reference(SubSeq(toks, k + 1, Len(toks)))
            IN  IF ~(l.wf /\ r.wf) THEN NotWellFormed
                ELSE IF ~(l.ok /\ r.ok) THEN Undefined
                ELSE IF toks[k] = <<"/">> /\ r.v[1] = 0 THEN Undefined
                ELSE Value(Arith(toks[k][1], l.v, r.v))
    IN  IF toks = <<>> THEN NotWellFormed
        ELSE IF add # {} THEN Split(Last(add))
        ELSE IF mul # {} THEN Split(Last(mul))
        ELSE IF Len(toks) >= 2 /\ toks[1] = <<"(">> /\ toks[Len(toks)] = <<")">>
        THEN Reference(SubSeq(toks, 2, Len(toks) - 1))
        ELSE IF Len(toks) = 1 /\ IsNumberLiteral(toks[1]) THEN Value(DecimalValue(toks[1]))
        ELSE NotWellFormed

\* evaluate_simple was handed a numeral with a minus sign: the text of a
\* group's negative value
NegativeGroupSeen ==
    \E k \in 1..Len(calls) :
        /\ calls[k].fn = "evaluate_simple"
        /\ \E j \in 1..Len(calls[k].arg) :
              Len(calls[k].arg[j]) > 1 /\ calls[k].arg[j][1] = "-"

-----------------------------------------------------------------------------
(* C1 *)

\* C1: for every well-formed expression without a division by zero,
\* calculate returns (v, None) with v the value the reference evaluator
\* gives under conventional precedence, also when a group is negative
C1_MatchesReference ==
    (Done /\ TokensReady /\ Reference(tokens).wf /\ Reference(tokens).ok)
        => (error = PyNone /\ result = PyFloat(Reference(tokens).v))

\* a nested expression with a negative group was evaluated to the reference value
C1_Witness ==
    /\ Done /\ TokensReady
    /\ Reference(tokens).wf /\ Reference(tokens).ok
    /\ NegativeGroupSeen
    /\ \E k \in 1..Len(tokens) : DepthAt(tokens, k) = 2
    /\ result = PyFloat(Reference(tokens).v)

-----------------------------------------------------------------------------
(* C2 *)

IsNum(t) == IsNumberLiteral(t)
IsBinOp(t) == t \in AddOps \cup MulOps
Val(t) == DecimalValue(t)

\* a op b is defined: no division by zero
Defined(op, b) == ~(op = <<"/">> /\ b[1] = 0)

\* a op1 b op2 c by the tier rule: the left operator first unless it is
\* additive and the right one multiplicative
TierDefined(a, op1, b, op2, c) ==
    IF op1 \in MulOps \/ op2 \in AddOps
    THEN Defined(op1, b) /\ Defined(op2, c)
    ELSE Defined(op2, c) /\ Defined(op1, Arith(op2[1], b, c))
TierValue(a, op1, b, op2, c) ==
    IF op1 \in MulOps \/ op2 \in AddOps
    THEN Arith(op2[1], Arith(op1[1], a, b), c)
    ELSE Arith(op1[1], a, Arith(op2[1], b, c))

\* C2: in a parenthesis-free expression a op1 b op2 c every * and / is
\* reduced before any + or -, operators of one tier left to right;
\* "5 + 3 * 2" is 11 and "20 / 4 / 5" is 1
C2_PrecedenceAndAssociativity ==
    /\ (Done /\ TokensReady /\ Len(tokens) = 5
          /\ IsNum(tokens[1]) /\ IsBinOp(tokens[2]) /\ IsNum(tokens[3])
          /\ IsBinOp(tokens[4]) /\ IsNum(tokens[5])
          /\ TierDefined(Val(tokens[1]), tokens[2], Val(tokens[3]), tokens[4], Val(tokens[5])))
        => (error = PyNone /\ result = PyFloat(
              TierValue(Val(tokens[1]), tokens[2], Val(tokens[3]), tokens[4], Val(tokens[5]))))
    /\ (Done /\ expression = Ex_5p3m2) => (error = PyNone /\ result = PyFloat(<<11, 1>>))
    /\ (Done /\ expression = Ex_20d4d5) => (error = PyNone /\ result = PyFloat(<<1, 1>>))

\* a / b / c was evaluated, left to right
C2_Witness ==
    /\ Done /\ TokensReady /\ Len(tokens) = 5
    /\ tokens[2] = <<"/">> /\ tokens[4] = <<"/">>
    /\ IsNum(tokens[1]) /\ IsNum(tokens[3]) /\ IsNum(tokens[5])
    /\ Val(tokens[3])[1] # 0 /\ Val(tokens[5])[1] # 0
    /\ result = PyFloat(FDiv(FDiv(Val(tokens[1]), Val(tokens[3])), Val(tokens[5])))
    /\ result # PyFloat(Val(tokens[1]))

-----------------------------------------------------------------------------
(* C3 *)

Open == <<"(">>
Close == <<")">>

\* C3: a parenthesized group is evaluated as a unit and its value is one
\* operand of the operators around it: "(a op1 b) op2 c" is (a op1 b) op2 c,
\* "a op1 (b op2 c)" is a op1 (b op2 c), "((a op1 b) op2 c) op3 d" is
\* ((a op1 b) op2 c) op3 d, and "((5 + 3) * 2) - 10 / 5" is 14
C3_GroupIsOneOperand ==
    /\ (Done /\ TokensReady /\ Len(tokens) = 7
          /\ tokens[1] = Open /\ IsNum(tokens[2]) /\ IsBinOp(tokens[3]) /\ IsNum(tokens[4])
          /\ tokens[5] = Close /\ IsBinOp(tokens[6]) /\ IsNum(tokens[7])
          /\ Defined(tokens[3], Val(tokens[4])) /\ Defined(tokens[6], Val(tokens[7])))
        => (error = PyNone /\ result = PyFloat(
              Arith(tokens[6][1], Arith(tokens[3][1], Val(tokens[2]), Val(tokens[4])),
                    Val(tokens[7]))))
    /\ (Done /\ TokensReady /\ Len(tokens) = 7
          /\ IsNum(tokens[1]) /\ IsBinOp(tokens[2]) /\ tokens[3] = Open /\ IsNum(tokens[4])
          /\ IsBinOp(tokens[5]) /\ IsNum(tokens[6]) /\ tokens[7] = Close
          /\ Defined(tokens[5], Val(tokens[6]))
          /\ Defined(tokens[2], Arith(tokens[5][1], Val(tokens[4]), Val(tokens[6]))))
        => (error = PyNone /\ result = PyFloat(
              Arith(tokens[2][1], Val(tokens[1]),
                    Arith(tokens[5][1], Val(tokens[4]), Val(tokens[6])))))
    /\ (Done /\ TokensReady /\ Len(tokens) = 11
          /\ tokens[1] = Open /\ tokens[2] = Open /\ IsNum(tokens[3]) /\ IsBinOp(tokens[4])
          /\ IsNum(tokens[5]) /\ tokens[6] = Close /\ IsBinOp(tokens[7]) /\ IsNum(tokens[8])
          /\ tokens[9] = Close /\ IsBinOp(tokens[10]) /\ IsNum(tokens[11])
          /\ Defined(tokens[4], Val(tokens[5])) /\ Defined(tokens[7], Val(tokens[8]))
          /\ Defined(tokens[10], Val(tokens[11])))
        => (error = PyNone /\ result = PyFloat(
              Arith(tokens[10][1],
                    Arith(tokens[7][1], Arith(tokens[4][1], Val(tokens[3]), Val(tokens[5])),
                          Val(tokens[8])),
                    Val(tokens[11]))))
    /\ (Done /\ expression = Ex_p5p3pm2) => (error = PyNone /\ result = PyFloat(<<16, 1>>))
    /\ (Done /\ expression = Ex_nested) => (error = PyNone /\ result = PyFloat(<<14, 1>>))

\* a group overrode the tiers: "(a + b) * c" gave (a + b) * c, which
\* differs from a + (b * c)
C3_Witness ==
    /\ Done /\ TokensReady /\ Len(tokens) = 7
    /\ tokens[1] = Open /\ tokens[3] \in AddOps /\ tokens[5] = Close /\ tokens[6] \in MulOps
    /\ IsNum(tokens[2]) /\ IsNum(tokens[4]) /\ IsNum(tokens[7])
    /\ Defined(tokens[6], Val(tokens[7]))
    /\ result = PyFloat(Arith(tokens[6][1],
                              Arith(tokens[3][1], Val(tokens[2]), Val(tokens[4])),
                              Val(tokens[7])))
    /\ result # PyFloat(Arith(tokens[3][1], Val(tokens[2]),
                              Arith(tokens[6][1], Val(tokens[4]), Val(tokens[7]))))

-----------------------------------------------------------------------------
(* C4 *)

\* C4: in an otherwise well-formed expression a division whose right
\* operand is zero, a literal or the value of a group, makes calculate
\* fail with "Division by zero" and return no number
C4_DivisionByZero ==
    (Done /\ TokensReady /\ Reference(tokens).wf /\ ~Reference(tokens).ok)
        => ErrorIs(<<"Division by zero">>)

\* the divisor was a group whose value is zero
C4_Witness ==
    /\ Done /\ TokensReady
    /\ Reference(tokens).wf /\ ~Reference(tokens).ok
    /\ \E k \in 1..(Len(tokens) - 1) : tokens[k] = <<"/">> /\ tokens[k + 1] = Open
    /\ \A k \in 1..Len(tokens) : tokens[k] # <<"0">>
    /\ ErrorIs(<<"Division by zero">>)

-----------------------------------------------------------------------------
(* C5 *)

\* C5: whenever calculate returns without an error its result is a single
\* Number; every other shape, a lone operator token included, fails
C5_ResultIsNumber == Succeeded => result.ty = "float"

-----------------------------------------------------------------------------
(* C6 *)

FirstOpenAt(toks) == CHOOSE k \in 1..Len(toks) :
                        toks[k] = Open /\ \A j \in 1..(k - 1) : toks[j] # Open

\* the nesting counter started at the leftmost Open never returns to zero
LeftmostOpenUnmatched(toks) ==
    /\ \E k \in 1..Len(toks) : toks[k] = Open
    /\ \A j \in FirstOpenAt(toks)..Len(toks) :
          DepthAt(toks, j) - DepthAt(toks, FirstOpenAt(toks) - 1) > 0

\* C6: a token sequence whose leftmost Open has no matching Close makes
\* calculate fail with "Mismatched parentheses"
C6_UnmatchedOpen ==
    (Done /\ TokensReady /\ LeftmostOpenUnmatched(tokens))
        => ErrorIs(<<"Mismatched parentheses">>)

\* "(5 + 3" failed so
C6_Witness ==
    /\ Done /\ TokensReady /\ expression = Ex_open
    /\ LeftmostOpenUnmatched(tokens)
    /\ ErrorIs(<<"Mismatched parentheses">>)

-----------------------------------------------------------------------------
(* C7 *)

\* some Close has no Open before it to match
HasUnmatchedClose(toks) == \E k \in 1..Len(toks) : DepthAt(toks, k) < 0

\* C7: a Close token with no matching Open makes calculate fail with the
\* error of unbalanced parentheses, as an unmatched Open does
C7_UnmatchedClose ==
    (Done /\ TokensReady /\ HasUnmatchedClose(tokens))
        => ErrorIs(<<"Mismatched parentheses">>)

-----------------------------------------------------------------------------
(* C8 *)

\* the characters tokenize accepts
Permitted == Digits \cup {".", " "} \cup {SymbolString[k] : k \in 1..Len(SymbolString)}
BadPositions == {k \in 1..Len(expression) : expression[k] \notin Permitted}
FirstBad == CHOOSE k \in BadPositions : \A j \in BadPositions : k <= j

-----------------------------------------------------------------------------
(* C9 *)

-----------------------------------------------------------------------------
(* C10 *)

ErrorKinds == {"InvalidCharacter", "EmptyExpression", "UnbalancedParentheses",
               "DivisionByZero", "MalformedExpression"}

\* C10: every failing call returns one of the five tagged error kinds; the
\* "Error: ..." text of the last except clause is never returned
C10_NoGenericError ==
    (Done /\ error # PyNone) => ErrorKind(error) \in ErrorKinds

-----------------------------------------------------------------------------
(* C11 *)

\* the guards of the actions: the call is at a position it can leave
CanStep ==
    \/ pc \in {"tokenize", "check"}
    \/ /\ pc = "eval"
       /\ stack # <<>>
       /\ \/ Top.fn = "evaluate_with_parentheses"
          \/ Top.fn = "evaluate_simple" /\ Top.stage \in {"pass1", "pass2", "check"}

\* C11: calculate always comes to return a pair (result, error) of which
\* exactly one component is None; no exception raised in tokenize,
\* find_matching_parenthesis, evaluate_simple or evaluate_with_parentheses
\* leaves calculate, so a call that has not returned can take a step
C11_ReturnsPair ==
    /\ Done => ((result = PyNone) # (error = PyNone))
    /\ Done => (error.ty \in {"None", "str"} /\ result.ty \in {"None", "float", "str"})
    /\ ~Done => CanStep

\* a TypeError raised inside evaluate_simple was returned as an error text
C11_Witness ==
    /\ Done
    /\ ErrorKind(error) = "Generic"
    /\ result = PyNone
    /\ \E k \in 1..Len(calls) : calls[k].fn = "evaluate_simple"

-----------------------------------------------------------------------------
(* C12 *)

\* every parenthesis of the list has its partner
Balanced(toks) == ~HasUnmatchedClose(toks) /\ DepthAt(toks, Len(toks)) = 0

\* every token is a symbol or the text of a number, and no group is empty
OnlyNumbersAndSymbols(toks) ==
    /\ \A k \in 1..Len(toks) : IsNum(toks[k]) \/ IsBinOp(toks[k]) \/ toks[k] \in {Open, Close}
    /\ \A k \in 1..(Len(toks) - 1) : ~(toks[k] = Open /\ toks[k + 1] = Close)

\* an operator at the start, directly after an Open or directly after
\* another operator
SignPositions(toks) ==
    {k \in 1..Len(toks) :
        /\ IsBinOp(toks[k])
        /\ (k = 1 \/ toks[k - 1] = Open \/ IsBinOp(toks[k - 1]))}

\* C12: an operator with no Number immediately to its left is never taken
\* as a sign: calculate fails with the error of a malformed expression
\* (the list has no other defect and no division by zero came first)
C12_NoUnaryMinus ==
    (/\ Done
     /\ TokensReady
     /\ Balanced(tokens)
     /\ OnlyNumbersAndSymbols(tokens)
     /\ SignPositions(tokens) # {}
     /\ ErrorKind(error) # "DivisionByZero")
    => (result = PyNone /\ ErrorKind(error) = "MalformedExpression")

-----------------------------------------------------------------------------
(* C13 *)

\* a well-formed expression with a value
IsExpression(toks) == Reference(toks).wf /\ Reference(toks).ok

\* an expression followed by an operator that has no right operand
TrailingOperator(toks) ==
    /\ Len(toks) >= 2
    /\ IsBinOp(toks[Len(toks)])
    /\ IsExpression(SubSeq(toks, 1, Len(toks) - 1))

\* two expressions side by side with no operator between them
Juxtaposed(toks) ==
    \E k \in 1..(Len(toks) - 1) :
        /\ IsExpression(SubSeq(toks, 1, k))
        /\ IsExpression(SubSeq(toks, k + 1, Len(toks)))

\* C13 as stated: a trailing operator, and two operands with no operator
\* between them, both fail with the message "Invalid expression"
C13_InvalidExpressionMessage ==
    (Done /\ TokensReady /\ (TrailingOperator(tokens) \/ Juxtaposed(tokens)))
    => ErrorIs(<<"Invalid expression">>)

\* C13: both fail as malformed expressions; two operands side by side with
\* the message "Invalid expression", a trailing operator with the message
\* "Invalid expression format"
C13_MalformedMessages ==
    /\ (Done /\ TokensReady /\ TrailingOperator(tokens))
       => (ErrorIs(<<"Invalid expression format">>)
           /\ ErrorKind(error) = "MalformedExpression")
    /\ (Done /\ TokensReady /\ Juxtaposed(tokens))
       => (ErrorIs(<<"Invalid expression">>)
           /\ ErrorKind(error) = "MalformedExpression")

\* an expression followed by an additive operator and nothing else has
\* been evaluated
C13_Witness ==
    /\ Done
    /\ TokensReady
    /\ TrailingOperator(tokens)
    /\ tokens[Len(tokens)] \in AddOps
    /\ ErrorIs(<<"Invalid expression format">>)

-----------------------------------------------------------------------------
(* C14 *)

\* a run of digits and points that is not the text of a number: it has
\* more than one point, or no digit
MalformedLiteral(t) ==
    /\ t # <<>>
    /\ \A k \in 1..Len(t) : t[k] \in Digits \cup {"."}
    /\ (Count(".", t) > 1 \/ \A k \in 1..Len(t) : t[k] = ".")

\* the first token of the list that is neither an operator nor a number
FirstNonNumber(toks) ==
    LET bad == {k \in 1..Len(toks) : ~IsBinOp(toks[k]) /\ ~IsNum(toks[k])}
    IN  toks[CHOOSE k \in bad : \A j \in bad : k <= j]

\* the expression with its spaces taken out
WithoutSpaces(e) == SelectSeq(e, LAMBDA c : c # " ")

\* C14: tokenize never fails on digits and points: a run of them, with more
\* than one point or with no digit, becomes a single token; the token is
\* rejected afterwards, at the conversion in evaluate_simple, with the
\* malformed-expression message "Invalid number: <token>" (stated for token
\* lists without parentheses, where the conversion is the first thing done)
C14_MalformedLiteral ==
    /\ MalformedLiteral(WithoutSpaces(expression))
       => /\ Done => TokensReady
          /\ TokensReady => tokens = <<WithoutSpaces(expression)>>
    /\ (/\ Done
        /\ TokensReady
        /\ \A k \in 1..Len(tokens) : tokens[k] \notin {Open, Close}
        /\ \E k \in 1..Len(tokens) : MalformedLiteral(tokens[k]))
       => /\ ErrorIs(<<"Invalid number: ">> \o FirstNonNumber(tokens))
          /\ ErrorKind(error) = "MalformedExpression"
          /\ calls[Len(calls)].fn = "evaluate_simple"

\* a token with two points stood beside an operator and was rejected
C14_Witness ==
    /\ Done
    /\ TokensReady
    /\ Len(tokens) > 1
    /\ \E k \in 1..Len(tokens) : MalformedLiteral(tokens[k]) /\ Count(".", tokens[k]) > 1
    /\ ErrorKind(error) = "MalformedExpression"

-----------------------------------------------------------------------------
(* C15 *)

\* C15: a tab is whitespace like a space: the scan passes over it, it never
\* makes calculate fail with "Invalid character", and "5<tab>+<tab>3" is
\* evaluated like "5 + 3", to 8
C15_TabIsWhitespace ==
    /\ Done => error # PyStr(<<"Invalid character: ", "\t">>)
    /\ (Done /\ pos <= Len(expression)) => expression[pos] # "\t"
    /\ (Done /\ expression \in {Pr_tab, Pr_space})
       => (Succeeded /\ result = PyFloat(<<8, 1>>))

-----------------------------------------------------------------------------
(* C16 *)

\* C16: spaces do not count: the pair calculate returns for an expression
\* is the pair it returns for the same expression with every space taken
\* out, so adding or removing spaces between tokens, in front or at the
\* end changes neither the result nor the error
C16_WhitespaceInsensitive ==
    Done => [result |-> result, error |-> error] = calculate(WithoutSpaces(expression))

\* an expression with spaces between its tokens has been evaluated
C16_Witness ==
    /\ Succeeded
    /\ Len(tokens) >= 3
    /\ \E k \in 2..(Len(expression) - 1) : expression[k] = " "
    /\ result.ty = "float"

-----------------------------------------------------------------------------
(* C17 *)

\* the pair a call with locals c has returned
Returned(c) == [result |-> c.result, error |-> c.error]

\* the calls in progress or returned: the running one and the waiting ones
AllCalls == {Context} \cup {suspended[k] : k \in 1..Len(suspended)}

\* C17: nothing is kept from one call to the next and nothing is shared
\* between calls: whatever calls came before and however the steps of two
\* calls in progress are interleaved, a call that has returned has returned
\* the pair that calculate gives for its argument alone
C17_Stateless ==
    \A c \in AllCalls : c.pc = "done" => Returned(c) = calculate(c.expression)

\* two calls with the same argument were in progress at once and both have
\* returned a value, one of them begun after another call had returned
C17_Witness ==
    /\ Succeeded
    /\ started = MaxCalls
    /\ suspended # <<>>
    /\ suspended[1].pc = "done"
    /\ suspended[1].expression = expression

-----------------------------------------------------------------------------
(* C18 *)

\* a step that ends the evaluation of a group and goes on in the enclosing
\* evaluate_with_parentheses
IsResolution ==
    /\ pc = "eval"
    /\ Len(stack) > 2
    /\ Top.fn = "evaluate_simple"
    /\ Top.stage = "check"
    /\ pc' = "eval"

\* the resolution replaces at least two tokens by one: the list of the
\* enclosing call becomes shorter
ResolutionShrinks ==
    IsResolution =>
        LET parent == stack[Len(stack) - 2]
            after == stack'[Len(stack')]
        IN  /\ Len(stack') = Len(stack) - 2
            /\ parent.closing_index - parent.i + 1 >= 2
            /\ Len(after.tokens) = Len(parent.tokens) - (parent.closing_index - parent.i)
            /\ Len(after.tokens) < Len(parent.tokens)

\* a step that is an iteration of one of the two while loops
IsIteration ==
    /\ pc = "eval"
    /\ stack # <<>>
    /\ Top.fn = "evaluate_simple"
    /\ Top.stage \in {"pass1", "pass2"}
    /\ Top.i < Len(Top.processed)
    /\ pc' = "eval"

\* the iteration moves the index on or makes the list shorter
IterationProgresses ==
    IsIteration =>
        LET after == stack'[Len(stack')]
        IN  \/ after.i > Top.i /\ after.processed = Top.processed
            \/ Len(after.processed) < Len(Top.processed) /\ after.i = Top.i

\* number of Open tokens among the tokens at the 1-based positions a..b
OpensIn(toks, a, b) == Cardinality({k \in a..b : k <= Len(toks) /\ toks[k] = Open})

\* a bound on the steps a call of evaluate_with_parentheses has left when it
\* is about to look at a list of n tokens with o Open tokens
ResolverBound(o, n) == 2 * o + 4 * n + 5

\* a bound on the steps the frame at depth k of the stack has left: an
\* evaluate_simple in one of its passes, the evaluate_with_parentheses at
\* the top, one waiting for evaluate_simple (line 144), or one waiting for
\* the value of its group (line 135)
FrameBound(st, k) ==
    LET f == st[k]
        L == Len(f.processed)
    IN  IF f.fn = "evaluate_simple"
        THEN IF f.stage = "pass1" THEN (2 * L - f.i) + 2 * L + 4
             ELSE IF f.stage = "pass2" THEN (2 * L - f.i) + 2
             ELSE 1
        ELSE IF k = Len(st)
        THEN ResolverBound(OpensIn(f.tokens, 1, Len(f.tokens)), Len(f.tokens))
        ELSE IF st[k + 1].fn = "evaluate_simple" THEN 0
        ELSE ResolverBound(OpensIn(f.tokens, 1, Len(f.tokens))
                           - OpensIn(f.tokens, f.i + 1, f.closing_index + 1),
                           Len(f.tokens) - (f.closing_index - f.i))

RECURSIVE StackBound(_, _)
StackBound(st, k) == IF k = 0 THEN 0 ELSE FrameBound(st, k) + StackBound(st, k - 1)

\* a bound on the steps the call of calculate has left
Measure ==
    IF pc = "done" THEN 0
    ELSE IF pc = "tokenize" THEN (Len(expression) + 1 - pos) + 6 * Len(expression) + 7
    ELSE IF pc = "check"
    THEN 1 + ResolverBound(OpensIn(tokens, 1, Len(tokens)), Len(tokens))
    ELSE StackBound(stack, Len(stack))

\* the iteration the running pass is about to make
NextIteration ==
    IF Top.stage = "pass1" THEN Pass1Iter(Top.processed, Top.i)
    ELSE Pass2Iter(Top.processed, Top.i)

\* in a pass that is not over, the iteration to come raises an exception,
\* moves the index on or makes the list shorter: it never leaves index
\* and list as they are
IterationAhead ==
    (/\ pc = "eval"
     /\ stack # <<>>
     /\ Top.fn = "evaluate_simple"
     /\ Top.stage \in {"pass1", "pass2"}
     /\ Top.i < Len(Top.processed))
    => \/ NextIteration.raised
       \/ /\ NextIteration.val.i > Top.i
          /\ NextIteration.val.processed = Top.processed
       \/ /\ Len(NextIteration.val.processed) < Len(Top.processed)
          /\ NextIteration.val.i = Top.i

\* C18: calculate terminates on every input: every resolution of a group
\* replaces at least two tokens by one and makes the token list shorter,
\* every iteration of a reduction pass moves the index on or makes the
\* list shorter, and every step of a call lowers a bound, a natural number,
\* on the steps the call has left, while a call that has not returned can
\* take a step
C18_Terminates ==
    /\ [][ResolutionShrinks /\ IterationProgresses /\ Measure' < Measure]_vars
    /\ [](Measure \in Nat /\ (Measure = 0 <=> Done))
    /\ [](IterationAhead /\ (~Done => CanStep))

\* a call with a group inside a group, a product and a sum has returned
C18_Witness ==
    /\ Succeeded
    /\ \E k \in 1..(Len(tokens) - 1) : tokens[k] = Open /\ tokens[k + 1] = Open
    /\ \E k \in 1..Len(tokens) : tokens[k] \in MulOps
    /\ \E k \in 1..Len(tokens) : tokens[k] \in AddOps

-----------------------------------------------------------------------------
(* C19 *)

\* C19: a resolution step replaces the whole span from the leftmost Open
\* to its matching Close by exactly one token, the text of a number; the
\* tokens before and after the span stay as they are and in order; the
\* token put in is never an operator or a parenthesis
C19_SpliceOneNumber ==
    [][IsResolution =>
          LET parent == stack[Len(stack) - 2]
              after == stack'[Len(stack')]
              put == At(after.tokens, parent.i)
          IN  /\ Len(stack') = Len(stack) - 2
              /\ At(parent.tokens, parent.i) = Open
              /\ parent.i = FirstOpen(parent.tokens)
              /\ At(parent.tokens, parent.closing_index) = Close
              /\ after.tokens = Slice(parent.tokens, 0, parent.i) \o <<put>>
                                \o SliceFrom(parent.tokens, parent.closing_index + 1)
              /\ IsFloatLiteral(put)
              /\ ~IsBinOp(put)
              /\ put \notin {Open, Close}]_vars

-----------------------------------------------------------------------------
(* C20 *)

\* C20: no token list given to evaluate_simple, by the call at the top
\* level or by a recursive one, holds an Open or a Close token
C20_NoParenthesisInSimple ==
    \A k \in 1..Len(calls) :
        calls[k].fn = "evaluate_simple"
        => \A j \in 1..Len(calls[k].arg) : calls[k].arg[j] \notin {Open, Close}

-----------------------------------------------------------------------------
(* C21 *)

\* the calls of evaluate_simple made so far, in order
SimpleCalls == SelectSeq(calls, LAMBDA c : c.fn = "evaluate_simple")

\* the positions of the Close tokens, and the j-th of them from the left
Closes(toks) == {k \in 1..Len(toks) : toks[k] = Close}
NthClose(toks, j) ==
    CHOOSE q \in Closes(toks) : Cardinality({r \in Closes(toks) : r <= q}) = j

\* the partners of the Open at p and of the Close at q
MatchClose(toks, p) ==
    CHOOSE m \in (p + 1)..Len(toks) :
        /\ DepthAt(toks, m) = DepthAt(toks, p - 1)
        /\ \A j \in (p + 1)..(m - 1) : DepthAt(toks, j) # DepthAt(toks, p - 1)
MatchOpen(toks, q) ==
    CHOOSE p \in 1..(q - 1) : toks[p] = Open /\ MatchClose(toks, p) = q

\* the tokens at the positions k..(q - 1), every group among them replaced
\* by the text of its value
RECURSIVE Flat(_, _, _)
Flat(toks, k, q) ==
    IF k >= q THEN <<>>
    ELSE IF toks[k] = Open
    THEN LET m == MatchClose(toks, k)
         IN  <<Str(evaluate_with_parentheses(SubSeq(toks, k + 1, m - 1)).val)>>
             \o Flat(toks, m + 1, q)
    ELSE <<toks[k]>> \o Flat(toks, k + 1, q)

\* what evaluate_simple is given by the j-th call when the groups are taken
\* inner before outer and left before right, that is by the position of
\* their Close; after the last group comes the whole list
InOrder(toks, j) ==
    IF j <= Cardinality(Closes(toks))
    THEN Flat(toks, MatchOpen(toks, NthClose(toks, j)) + 1, NthClose(toks, j))
    ELSE Flat(toks, 1, Len(toks) + 1)

\* C21: groups are resolved inner to outer and left to right: the j-th call
\* of evaluate_simple is for the group whose Close is the j-th from the
\* left, with every group inside it already replaced by its value; a call
\* is made only after all calls before it have returned a value, so the
\* error returned is that of the first group, in this order, that fails
\* (for token lists whose parentheses all have their partners)
C21_InnerFirstLeftFirst ==
    (TokensReady /\ Balanced(tokens)) =>
        /\ Len(SimpleCalls) <= Cardinality(Closes(tokens)) + 1
        /\ \A j \in 1..Len(SimpleCalls) : SimpleCalls[j].arg = InOrder(tokens, j)
        /\ \A j \in 1..(Len(SimpleCalls) - 1) : ~evaluate_simple(SimpleCalls[j].arg).raised
        /\ (Done /\ tokens # <<>>) =>
              LET last == evaluate_simple(SimpleCalls[Len(SimpleCalls)].arg)
              IN  IF last.raised
                  THEN result = PyNone /\ error = Handler(last.exc)
                  ELSE error = PyNone /\ Len(SimpleCalls) = Cardinality(Closes(tokens)) + 1

\* the first of several groups failed, a group inside another, and the
\* groups after it were never evaluated
C21_Witness ==
    /\ Done
    /\ TokensReady
    /\ Balanced(tokens)
    /\ Len(tokens) >= 2
    /\ tokens[1] = Open /\ tokens[2] = Open
    /\ Len(SimpleCalls) = 1
    /\ Cardinality(Closes(tokens)) >= 3
    /\ error = PyStr(<<"Invalid expression format">>)
    /\ evaluate_simple(InOrder(tokens, 2)).raised

-----------------------------------------------------------------------------
(* C22 *)

\* the scan that starts again at the beginning after every replacement:
\* the iteration at index i is that of the implemented pass, and the index
\* goes back to 0 when the list has become shorter
RECURSIVE RestartPass1(_, _)
RestartPass1(processed, i) ==
    IF i < Len(processed)
    THEN LET r == Pass1Iter(processed, i)
         IN  IF r.raised THEN r
             ELSE IF Len(r.val.processed) < Len(processed)
             THEN RestartPass1(r.val.processed, 0)
             ELSE RestartPass1(processed, i + 1)
    ELSE Return(processed)

RECURSIVE RestartPass2(_, _)
RestartPass2(processed, i) ==
    IF i < Len(processed)
    THEN LET r == Pass2Iter(processed, i)
         IN  IF r.raised THEN r
             ELSE IF Len(r.val.processed) < Len(processed)
             THEN RestartPass2(r.val.processed, 0)
             ELSE RestartPass2(processed, i + 1)
    ELSE Return(processed)

\* the list after both passes, by the implemented scan and by the scan
\* that starts again
ImplementedPasses(toks) ==
    LET c == ConvertTokens(toks)
    IN  IF c.raised THEN c
        ELSE LET p1 == Pass1Loop(c.val, 0)
             IN  IF p1.raised THEN p1 ELSE Pass2Loop(p1.val, 0)

RestartPasses(toks) ==
    LET c == ConvertTokens(toks)
    IN  IF c.raised THEN c
        ELSE LET p1 == RestartPass1(c.val, 0)
             IN  IF p1.raised THEN p1 ELSE RestartPass2(p1.val, 0)

\* two outcomes are the same value, or the same exception
SameOutcome(a, b) ==
    /\ a.raised = b.raised
    /\ a.raised => a.exc = b.exc
    /\ ~a.raised => a.val = b.val

\* C22: the implemented scan, which looks again at the same index after a
\* replacement, gives for every token list handed to evaluate_simple the
\* list and the outcome that the scan gives which starts again at the
\* beginning after each replacement
C22_RestartEquivalent ==
    /\ \A k \in 1..Len(SimpleCalls) :
          SameOutcome(ImplementedPasses(SimpleCalls[k].arg),
                      RestartPasses(SimpleCalls[k].arg))
    /\ (pc = "eval" /\ stack # <<>> /\ Top.fn = "evaluate_simple" /\ Top.stage = "check")
       => /\ ~RestartPasses(Top.tokens).raised
          /\ RestartPasses(Top.tokens).val = Top.processed
          /\ SameOutcome(FinalCheck(Top.processed), evaluate_simple(Top.tokens))

\* the second pass has made two replacements, the second one at the index
\* of the first, and left one number
C22_Witness ==
    /\ pc = "eval"
    /\ stack # <<>>
    /\ Top.fn = "evaluate_simple"
    /\ Top.stage = "check"
    /\ Len(Top.processed) = 1
    /\ Len(Top.tokens) = 5
    /\ Top.tokens[2] \in AddOps
    /\ Top.tokens[4] \in AddOps

-----------------------------------------------------------------------------
(* C23 *)

\* the text of a token that stands for a number: digits and points
IsLiteralText(t) == t # <<>> /\ \A k \in 1..Len(t) : t[k] \in Digits \cup {"."}

\* C23: the pending number is flushed at every character that is neither a
\* digit nor a point, a space included: after such a character no number
\* is pending, and every Number token is a run of characters that stand
\* side by side in the input ("1 2" is never read as 12)
C23_FlushOnAnyOtherCharacter ==
    /\ (pc = "tokenize" /\ pos > 1 /\ expression[pos - 1] \notin Digits \cup {"."})
       => current_number = <<>>
    /\ TokensReady
       => \A k \in 1..Len(tokens) :
             IsLiteralText(tokens[k]) => IsSubstring(tokens[k], expression)

-----------------------------------------------------------------------------
(* C24 *)

\* two Number tokens side by side
AdjacentNumbers(toks) ==
    \E k \in 1..(Len(toks) - 1) : IsLiteralText(toks[k]) /\ IsLiteralText(toks[k + 1])

\* C24: the list tokenize builds and returns never has two Number tokens
\* side by side: while the loop runs its last token is a symbol, and
\* between two Number tokens of the list returned there is an operator or
\* a parenthesis
C24_NoAdjacentNumbers ==
    /\ ~AdjacentNumbers(tokens)
    /\ (pc = "tokenize" /\ tokens # <<>>) => ~IsLiteralText(tokens[Len(tokens)])
    /\ \A k \in 1..Len(tokens) : IsLiteralText(tokens[k]) \/ IsSubstring(tokens[k], SymbolString)

\* tokenize has returned its list for an input with two digits that only
\* a space separates
C24_Witness ==
    /\ TokensReady
    /\ tokens # <<>>
    /\ \E k \in 1..(Len(expression) - 2) :
          /\ expression[k] \in Digits
          /\ expression[k + 1] = " "
          /\ expression[k + 2] \in Digits

-----------------------------------------------------------------------------
(* C25 *)

\* C25: an empty group "()" is a malformed expression, and "Empty
\* expression" is the error only of an input without any token: no input
\* with a token fails with it
C25_EmptyGroupIsMalformed ==
    /\ (Done /\ TokensReady /\ tokens # <<>>) => error # PyStr(<<"Empty expression">>)
    /\ (Done /\ TokensReady /\ tokens = <<Open, Close>>)
       => (result = PyNone /\ ErrorKind(error) = "MalformedExpression")

-----------------------------------------------------------------------------
(* C26 *)

\* main has stopped: it returned after the goodbye, or an exception left it
MainReturned == main.at = "returned"
MainRaised == main.at = "raised"

\* C26: the loop of main ends only on the command exit or quit (stripped,
\* in any case of the letters), and no pair returned by calculate ends the
\* loop or raises out of main: after each call the result or the error
\* message is printed and the prompt comes back.
\* The code differs: calculate("+") returns ('+', None) (see C5), and
\* int(result) in main raises ValueError, which nothing in main catches.
C26_LoopEndsOnlyOnExit ==
    /\ ~MainRaised
    /\ MainReturned => Lower(main.expression) \in ExitCommands
    /\ (main.at = "input" /\ main.out.kind \in {"error", "result"})
          => /\ pc = "done"
             /\ main.out.text = IF error.ty = "str" THEN error.s
                                ELSE IF EqualsItsInt(result) THEN StrInt(result.v[1])
                                ELSE Str(result)

-----------------------------------------------------------------------------
(* C27 *)

\* the states the two decorators of Order.cancel name
CancelFrom == {"PENDING", "CONFIRMED"}

\* the last call on order was cancel()
CancelCalled == order.made /\ order.called.method = "cancel"

\* C27: in the states PENDING and CONFIRMED can_transition(CANCELLED) is
\* true and cancel() returns with the order in CANCELLED; in every other
\* state cancel() raises ValueError and leaves the current state and the
\* state history as they were.
\* The code differs: the outer decorator replaces the _transition set by the
\* inner one, so _transitions has a CANCELLED entry for PENDING only, and
\* cancel() raises ValueError in CONFIRMED.
C27_CancelFromPendingAndConfirmed ==
    /\ (order.made /\ order._current_state \in CancelFrom)
          => can_transition(OrderClass, order, "CANCELLED")
    /\ (CancelCalled /\ order.called.state \in CancelFrom)
          => /\ order.called.outcome = "returned"
             /\ order._current_state = "CANCELLED"
             /\ order._state_history = Append(order.called.history, "CANCELLED")
    /\ (CancelCalled /\ order.called.state \notin CancelFrom)
          => /\ order.called.outcome = "ValueError"
             /\ order._current_state = order.called.state
             /\ order._state_history = order.called.history

-----------------------------------------------------------------------------
(* C28 *)

\* the threads between the read of value and the end of their increment
InIncrement == {t \in Threads : counter.at[t] \in {"read", "sleep", "write", "exit"}}

\* the threads whose write has been made
Incremented == {t \in Threads : counter.at[t] \in {"exit", "done"}}

\* C28: in test_safe no increment is lost: the read of value and the write
\* of value + 1 of one thread are never interleaved with those of another
\* thread, value counts the increments made so far, and the test returns
\* the number of threads.
C28_NoLostIncrement ==
    counter.test = "safe" =>
        /\ Cardinality(InIncrement) <= 1
        /\ counter.value = Cardinality(Incremented)
        /\ counter.returned \in {-1, NumThreads}

\* test_safe has returned the number of its threads
C28_Witness ==
    /\ counter.test = "safe"
    /\ counter.returned = NumThreads
    /\ \A t \in Threads : counter.at[t] = "done"

-----------------------------------------------------------------------------
(* C29 *)

\* the locks task t holds
Holds(t) == {l \in {"resource_A", "resource_B"} : resource[l] = t}

\* task t waits for a lock that the other task holds
WaitsForOther(t) ==
    /\ resource.at[t] \in {"outer", "inner"}
    /\ LET lock == LockOrder(resource.scenario, t)[IF resource.at[t] = "outer" THEN 1 ELSE 2]
       IN  resource[lock] \in Tasks \ {t}

\* each task holds a lock and waits for the lock of the other
HoldAndWait == \A t \in Tasks : Holds(t) # {} /\ WaitsForOther(t)

\* both tasks have returned and nobody holds a lock
BothCompleted ==
    /\ \A t \in Tasks : resource.at[t] = "done"
    /\ resource.resource_A = 0
    /\ resource.resource_B = 0

\* C29: task1_safe and task2_safe never reach a state in which each holds
\* one lock and waits for the other, and under fair scheduling both run to
\* completion, with both locks released.
C29_LockOrderingPreventsDeadlock ==
    /\ [](resource.scenario = "safe" => ~HoldAndWait)
    /\ (resource.scenario = "safe" => <>[](BothCompleted /\ resource.joined = 3))

\* the second scenario with one task holding resource_A and the other
\* waiting for it
C29_Witness ==
    /\ resource.scenario = "safe"
    /\ \E t \in Tasks : Holds(t) = {"resource_A"} /\ WaitsForOther(3 - t)

-----------------------------------------------------------------------------
(* C30 *)

\* a thread is at put and the queue is full
PutBlocks ==
    \E t \in Clients :
        /\ conn_pool.at[t] = "put"
        /\ Len(conn_pool._connections) >= conn_pool._size

\* C30: however the calls of get_connection interleave, _created never
\* exceeds the size of the pool, and the put that returns a connection to
\* the queue never finds the queue full.
\* The code differs: _created is compared with _size outside the lock that
\* guards its increment, so two threads can both pass the test before either
\* creates; the pool then has more connections than the queue can hold.
C30_CreatedAtMostSize ==
    /\ conn_pool._created <= conn_pool._size
    /\ ~PutBlocks

====
